---------------------------- MODULE Spec2Model ----------------------------
(***************************************************************************)
(* Model of the viewer-data pipeline of KijkcijferApp:                     *)
(*   src/app/util/excelProcessor.ts   extractHourFromTimeSlot,             *)
(*                                    processViewerData                    *)
(*   src/app/util/dataAggregator.ts   aggregateMonthsData                  *)
(*   src/unnamed/part_004             handleFileChange (DataUploader)      *)
(*   src/unnamed/part_003             handleDataProcessed (Home)           *)
(*                                                                         *)
(* Conventions.                                                            *)
(*  - A JS string is a tuple of one-character strings, so that regular     *)
(*    expressions, parseInt and split are computed and not assumed.        *)
(*  - A JS number that counts viewers is kept in hundredths (the viewer    *)
(*    count 200 is 20000); a percentage after normalisation is kept in     *)
(*    ten-thousandths (0.5 is 5000).  NaN is a dedicated value.            *)
(*  - A JS array is a function whose DOMAIN is the set of its defined      *)
(*    indices (0-based); indices outside the DOMAIN are holes.             *)
(***************************************************************************)
EXTENDS Integers, Sequences, FiniteSets, TLC

VARIABLES
    pc,          \* position of the modelled call
    timeSlot,    \* SpecHour: argument of extractHourFromTimeSlot
    hourOut,     \* SpecHour: value returned by extractHourFromTimeSlot
    header,      \* SpecRows: data[headerRowIndex]
    i,           \* SpecRows: number of data rows the loop has read
    row,         \* SpecRows: <<data[i]>> for the row read last, <<>> before the first
    daysMap,     \* SpecRows: the Map of day records, in insertion order
    replaced,    \* SpecRows: <<v>> when the row read last overwrote hourlyViewers[hour] = v
    result,      \* SpecRows: <<summary>> once processViewerData has returned, else <<>>
    monthsData,  \* Spec: the stored months (Home state), in chronological order
    combined,    \* Spec: <<summary>> the aggregate view shows, <<>> when not rendered
    error,       \* Spec, SpecFile: the message of the error caught, <<>> for none
    jsonData,    \* SpecFile: the grid handed to processViewerData
    lines,       \* SpecSchedule: <<sheet>> the schedule sheet read, <<>> for none
    scheduleData, \* SpecSchedule: <<ScheduleData>> once parseScheduleCSV resolved
    localStorage, \* SpecSchedule: <<text>> stored under 'programmering_data', <<>> for none
    programData,  \* SpecSchedule: <<ScheduleData>> loadProgramData returned, <<>> for null
    viewerData,   \* SpecSchedule: the viewer data handed to the merge functions
    mergedData,   \* SpecSchedule: <<value>> a merge function returned, <<>> before
    files,        \* SpecBatch: the files of the batch handleFileChange works on
    fileIndex,    \* SpecBatch: number of files of the batch the loop has finished
    isLoading,    \* SpecBatch: the loading flag of the uploader
    debugInfo     \* SpecBatch: the log of the batch, one entry per file taken up

vars == <<pc, timeSlot, hourOut, header, i, row, daysMap, replaced, result,
          monthsData, combined, error, jsonData, lines, scheduleData,
          localStorage, programData, viewerData, mergedData,
          files, fileIndex, isLoading, debugInfo>>

rowVars == <<header, i, row, daysMap, replaced, result>>

sessionVars == <<monthsData, combined, error>>

storeVars == <<localStorage, programData>>

mergeVars == <<viewerData, mergedData>>

scheduleVars == <<lines, scheduleData, localStorage, programData, viewerData, mergedData>>

batchVars == <<files, fileIndex, isLoading, debugInfo>>

fileVars == <<jsonData, lines, scheduleData, localStorage, programData, viewerData, mergedData,
              files, fileIndex, isLoading, debugInfo>>

\* no schedule sheet is involved
NoSchedule ==
    /\ lines = <<>> /\ scheduleData = <<>>
    /\ localStorage = <<>> /\ programData = <<>>
    /\ viewerData = <<>> /\ mergedData = <<>>

\* no batch of files is being uploaded
NoBatch == files = <<>> /\ fileIndex = 0 /\ isLoading = FALSE /\ debugInfo = <<>>

---------------------------------------------------------------------------
(* Bounds *)

\* longest free-form time-slot token enumerated for extractHourFromTimeSlot
MaxTokenLen == 5

\* number of data rows below the header row of a grid processed row by row
MaxRows == 2

\* number of lines below the dates row of a schedule sheet
MaxLines == 3

\* number of files of a batch
MaxFiles == 2

---------------------------------------------------------------------------
(* Strings and numbers *)

Digits == {"0", "2", "5", "7", "9"}

AllDigits == {"0", "1", "2", "3", "4", "5", "6", "7", "8", "9"}

Chars == Digits \cup {":", "-"}

DigitVal(c) ==
    CASE c = "0" -> 0 [] c = "1" -> 1 [] c = "2" -> 2 [] c = "3" -> 3
      [] c = "4" -> 4 [] c = "5" -> 5 [] c = "6" -> 6 [] c = "7" -> 7
      [] c = "8" -> 8 [] c = "9" -> 9

IsDigit(c) == c \in AllDigits

\* parseInt(s, 10) for a string s made of digits only
RECURSIVE parseInt(_)
parseInt(s) ==
    IF Len(s) = 0 THEN 0
    ELSE 10 * parseInt(SubSeq(s, 1, Len(s) - 1)) + DigitVal(s[Len(s)])

---------------------------------------------------------------------------
(* extractHourFromTimeSlot *)

NOT_FOUND == -1

\* timeSlot.match(/^(\d{2}):00-\d{2}:59$/)
standardFormat(ts) ==
    /\ Len(ts) = 11
    /\ IsDigit(ts[1]) /\ IsDigit(ts[2])
    /\ ts[3] = ":" /\ ts[4] = "0" /\ ts[5] = "0" /\ ts[6] = "-"
    /\ IsDigit(ts[7]) /\ IsDigit(ts[8])
    /\ ts[9] = ":" /\ ts[10] = "5" /\ ts[11] = "9"

\* timeSlot.match(/^(\d{2})-(\d{2})$/)
dashFormat(ts) ==
    /\ Len(ts) = 5
    /\ IsDigit(ts[1]) /\ IsDigit(ts[2])
    /\ ts[3] = "-"
    /\ IsDigit(ts[4]) /\ IsDigit(ts[5])

\* timeSlot.match(/^(\d{1,2}):00$/)
simpleHourFormat(ts) ==
    \/ /\ Len(ts) = 4
       /\ IsDigit(ts[1])
       /\ ts[2] = ":" /\ ts[3] = "0" /\ ts[4] = "0"
    \/ /\ Len(ts) = 5
       /\ IsDigit(ts[1]) /\ IsDigit(ts[2])
       /\ ts[3] = ":" /\ ts[4] = "0" /\ ts[5] = "0"

\* the hour read from the first capture group of the first matching format
parsedHour(ts) ==
    IF standardFormat(ts) THEN parseInt(SubSeq(ts, 1, 2))
    ELSE IF dashFormat(ts) THEN parseInt(SubSeq(ts, 1, 2))
    ELSE IF simpleHourFormat(ts) THEN parseInt(SubSeq(ts, 1, Len(ts) - 3))
    ELSE -1

NormalizeHourNoWrap(hour) == hour

\* hours 24, 25, 26 are the first hours of the next day
NormalizeHour(hour) ==
    IF hour >= 24 /\ hour <= 26 THEN hour % 24 ELSE hour

extractHourFromTimeSlot(ts) ==
    IF Len(ts) = 0 THEN NOT_FOUND
    ELSE LET hour == parsedHour(ts)
         IN  IF hour = -1 THEN NOT_FOUND ELSE NormalizeHour(hour)

---------------------------------------------------------------------------
(* Cells of the grid produced by XLSX.utils.sheet_to_json(.., {header: 1}) *)

\* the value of every arithmetic on undefined or on a non-numeric string
NaN == -1000000000

Empty == [t |-> "empty", n |-> 0, s |-> <<>>]   \* a missing cell: undefined
Num(n) == [t |-> "num", n |-> n, s |-> <<>>]    \* the number n / 100
Str(s) == [t |-> "str", n |-> 0, s |-> s]

\* row[k], 0-based; undefined beyond the row's length
CellAt(r, k) == IF k + 1 <= Len(r) THEN r[k + 1] ELSE Empty

\* !cell is false
Truthy(c) ==
    \/ c.t = "num" /\ c.n # 0 /\ c.n # NaN
    \/ c.t = "str" /\ c.s # <<>>

DigitChar(d) ==
    CASE d = 0 -> "0" [] d = 1 -> "1" [] d = 2 -> "2" [] d = 3 -> "3"
      [] d = 4 -> "4" [] d = 5 -> "5" [] d = 6 -> "6" [] d = 7 -> "7"
      [] d = 8 -> "8" [] d = 9 -> "9"

RECURSIVE NatToString(_)
NatToString(n) ==
    IF n < 10 THEN <<DigitChar(n)>>
    ELSE Append(NatToString(n \div 10), DigitChar(n % 10))

\* Number.prototype.toString of the non-negative number n / 100
NumToString(n) ==
    IF n = NaN THEN <<"N", "a", "N">>
    ELSE IF n % 100 = 0 THEN NatToString(n \div 100)
    ELSE IF n % 10 = 0 THEN NatToString(n \div 100) \o <<".", DigitChar((n % 100) \div 10)>>
    ELSE NatToString(n \div 100) \o <<".", DigitChar((n % 100) \div 10), DigitChar(n % 10)>>

\* cell?.toString() || ''
ToStringOrEmpty(c) ==
    IF c.t = "str" THEN c.s
    ELSE IF c.t = "num" THEN NumToString(c.n)
    ELSE <<>>

\* Number(s) for a string: digits read as a whole number, '' as 0, else NaN
StrToNumber(s) ==
    IF Len(s) = 0 THEN 0
    ELSE IF \A k \in 1..Len(s) : IsDigit(s[k]) THEN 100 * parseInt(s)
    ELSE NaN

\* Number(cell || 0)
NumberOrZero(c) ==
    IF ~Truthy(c) THEN 0
    ELSE IF c.t = "num" THEN c.n
    ELSE StrToNumber(c.s)

\* Number(cell) for a cell that is not undefined
NumberOf(c) == IF c.t = "num" THEN c.n ELSE StrToNumber(c.s)

\* Math.round(num / den) for den > 0: halves round up
Round(num, den) == (2 * num + den) \div (2 * den)

Max(S) == CHOOSE x \in S : \A y \in S : y <= x

---------------------------------------------------------------------------
(* Dates *)

\* padStart(2, '0') of a day or month number
Pad2(n) == IF n < 10 THEN <<"0">> \o NatToString(n) ELSE NatToString(n)

\* the civil date [y, m, d] that lies z days after 1 January 1970
CivilFromDays(z) ==
    LET z1 == z + 719468
        era == z1 \div 146097
        doe == z1 - era * 146097
        yoe == (doe - doe \div 1460 + doe \div 36524 - doe \div 146096) \div 365
        doy == doe - (365 * yoe + yoe \div 4 - yoe \div 100)
        mp == (5 * doy + 2) \div 153
        d == doy - (153 * mp + 2) \div 5 + 1
        m == IF mp < 10 THEN mp + 3 ELSE mp - 9
    IN  [y |-> yoe + era * 400 + (IF m <= 2 THEN 1 ELSE 0), m |-> m, d |-> d]

\* days from 1 January 1970 to the civil date y-m-d
DaysFromCivil(y, m, d) ==
    LET y1 == IF m <= 2 THEN y - 1 ELSE y
        era == y1 \div 400
        yoe == y1 - era * 400
        doy == (153 * (IF m > 2 THEN m - 3 ELSE m + 9) + 2) \div 5 + d - 1
        doe == yoe * 365 + yoe \div 4 - yoe \div 100 + doy
    IN  era * 146097 + doe - 719468

\* excelDateToString(serial), serial in hundredths, read in a zone at or east of UTC
excelDateToString(serial) ==
    IF serial = 0 \/ serial = NaN THEN <<>>
    ELSE LET date == CivilFromDays((serial \div 100) - 25569)
         IN  Pad2(date.d) \o <<"-">> \o Pad2(date.m) \o <<"-">> \o NatToString(date.y)

\* s.split('-')
RECURSIVE SplitDash(_)
SplitDash(s) ==
    IF \A k \in 1..Len(s) : s[k] # "-" THEN <<s>>
    ELSE LET cut == CHOOSE k \in 1..Len(s) :
                        s[k] = "-" /\ \A m \in 1..(k - 1) : s[m] # "-"
         IN  <<SubSeq(s, 1, cut - 1)>> \o SplitDash(SubSeq(s, cut + 1, Len(s)))

\* new Date(year, month - 1, day).getTime() of a date string split on '-',
\* counted in days; NaN when a part is missing or not a number
DateTime(date) ==
    LET parts == SplitDash(date)
        part(k) == IF k <= Len(parts) THEN StrToNumber(parts[k]) ELSE NaN
    IN  IF part(1) = NaN \/ part(2) = NaN \/ part(3) = NaN THEN NaN
        ELSE LET day == part(1) \div 100
                 month == part(2) \div 100
                 year == IF part(3) \div 100 < 100 THEN 1900 + part(3) \div 100
                         ELSE part(3) \div 100
                 carry == (month - 1) \div 12
                 month0 == (month - 1) % 12
             IN  DaysFromCivil(year + carry, month0 + 1, 1) + day - 1

\* the comparator of both date sorts: a NaN difference counts as 0
CompareDates(a, b) ==
    IF DateTime(a.date) = NaN \/ DateTime(b.date) = NaN THEN 0
    ELSE DateTime(a.date) - DateTime(b.date)

\* Array.prototype.sort with CompareDates: stable insertion
RECURSIVE SortByDate(_)
SortByDate(days) ==
    IF Len(days) <= 1 THEN days
    ELSE LET sorted == SortByDate(SubSeq(days, 1, Len(days) - 1))
             last == days[Len(days)]
             keep == {k \in 0..Len(sorted) :
                         \A m \in (k + 1)..Len(sorted) : CompareDates(sorted[m], last) > 0}
             at == CHOOSE k \in keep : \A m \in keep : k <= m
         IN  SubSeq(sorted, 1, at) \o <<last>> \o SubSeq(sorted, at + 1, Len(sorted))

---------------------------------------------------------------------------
(* processViewerData: the header row and its columns *)

Includes(s, phrase) ==
    \E k \in 0..(Len(s) - Len(phrase)) : SubSeq(s, k + 1, k + Len(phrase)) = phrase

IsHeaderRow(r) ==
    /\ Len(r) > 2
    /\ r[1] = Str(<<"Datum">>)
    /\ r[2] = Str(<<"Dag">>)
    /\ r[3] = Str(<<"Tijdvak">>)

IsTotalViewersHeader(c) ==
    /\ c.t = "str" /\ c.s # <<>>
    /\ \/ Includes(c.s, <<"Dagcijfers">>)
       \/ Includes(c.s, <<"kijkdichtheid", "per", "dag">>)
       \/ Includes(c.s, <<"dagcijfers">>)
       \/ Includes(c.s, <<"Kijkers", "per", "dag">>)

IsKijkcijfersHeader(c) ==
    /\ c.t = "str" /\ c.s # <<>>
    /\ \/ Includes(c.s, <<"Kijkcijfers", "per", "programma">>)
       \/ Includes(c.s, <<"kijkcijfers", "per", "programma">>)
       \/ Includes(c.s, <<"Kijkcijfer", "per", "uur">>)
       \/ Includes(c.s, <<"kijkcijfer", "per", "uur">>)

IsPercentageHeader(c) ==
    /\ c.t = "str" /\ c.s # <<>>
    /\ \/ c.s = <<"TOTAL">>
       \/ c.s = <<"Total">>
       \/ c.s = <<"Totaal">>
       \/ Includes(c.s, <<"percentage">>)

\* the forEach over the header cells assigns on every match: the last one stays
LastColumn(found) == IF found = {} THEN -1 ELSE Max(found)

\* the first of the candidate positions that lies inside the header row
FirstInBounds(hdr, positions) ==
    LET inside == {k \in 1..Len(positions) : positions[k] < Len(hdr)}
    IN  IF inside = {} THEN -1
        ELSE positions[CHOOSE k \in inside : \A m \in inside : k <= m]

FallbackTotalViewersColumn == 4
FallbackPercentageColumn == 6

totalViewersColumnIndex(hdr) ==
    LET byName == LastColumn({k \in 0..(Len(hdr) - 1) : IsTotalViewersHeader(hdr[k + 1])})
        byPosition == IF byName = -1 THEN FirstInBounds(hdr, <<3, 4, 5, 6>>) ELSE byName
    IN  IF byPosition = -1 THEN FallbackTotalViewersColumn ELSE byPosition

kijkcijfersColumnIndex(hdr) == 
    LastColumn({k \in 0..(Len(hdr) - 1) : IsKijkcijfersHeader(hdr[k + 1])})

percentageColumnIndex(hdr) ==
    LET byName == LastColumn({k \in 0..(Len(hdr) - 1) : IsPercentageHeader(hdr[k + 1])})
        byPosition == IF byName = -1 THEN FirstInBounds(hdr, <<4, 5, 6, 7>>) ELSE byName
    IN  IF byPosition = -1 THEN FallbackPercentageColumn ELSE byPosition

---------------------------------------------------------------------------
(* processViewerData: one iteration of the loop over the data rows *)

ZeroArray24 == [h \in 0..23 |-> 0]

\* arr[k] = v; an index beyond the length leaves holes in between
ArraySet(arr, k, v) == (k :> v) @@ arr

\* arr.length
ArrayLength(arr) == IF DOMAIN arr = {} THEN 0 ELSE Max(DOMAIN arr) + 1

\* index in the Map's insertion order of the record keyed by date, 0 if none
DayIndex(map, date) ==
    IF \E k \in 1..Len(map) : map[k].date = date
    THEN CHOOSE k \in 1..Len(map) : map[k].date = date
    ELSE 0

\* the incomplete-row test that opens the loop body
RowTooShort(hdr, r) ==
    LET tv == totalViewersColumnIndex(hdr)
        pct == percentageColumnIndex(hdr)
    IN  Len(r) < (IF tv > pct THEN tv ELSE pct) + 1

\* totalViewerPercent, in ten-thousandths: a raw figure above 1 is divided by 100
PercentOf(hdr, r) ==
    LET raw == NumberOrZero(CellAt(r, percentageColumnIndex(hdr)))
    IN  IF raw = NaN THEN NaN
        ELSE IF raw > 100 THEN raw
        ELSE raw * 100

totalDailyViewersOf(hdr, r) == NumberOrZero(CellAt(r, totalViewersColumnIndex(hdr)))

dateStringOf(r) ==
    LET excelDate == CellAt(r, 0)
    IN  IF excelDate.t = "num" THEN excelDateToString(excelDate.n) ELSE excelDate.s

\* the row passes every `continue` of the loop body
RowAccepted(hdr, r) ==
    /\ ~RowTooShort(hdr, r)
    /\ Truthy(CellAt(r, 0))
    /\ ToStringOrEmpty(CellAt(r, 2)) # <<>>
    /\ extractHourFromTimeSlot(ToStringOrEmpty(CellAt(r, 2))) # -1
    /\ dateStringOf(r) # <<>>

CalculatedViewersIgnored(hdr, r) == 0

\* the calculated viewers of the file's own column, 0 without such a value
CalculatedViewersOf(hdr, r) ==
    LET k == kijkcijfersColumnIndex(hdr)
    IN  IF k # -1 /\ CellAt(r, k).t # "empty" THEN NumberOf(CellAt(r, k)) ELSE 0

\* Math.round(totalViewerPercent * totalDailyViewers), in hundredths
PercentageViewers(percent, total) == 100 * Round(percent * total, 1000000)

\* the hourlyViewers of a row
hourlyViewersOf(hdr, r) ==
    LET calculated == CalculatedViewersOf(hdr, r)
        total == totalDailyViewersOf(hdr, r)
        percent == PercentOf(hdr, r)
    IN  IF calculated = 0 /\ total > 0 /\ percent > 0
        THEN PercentageViewers(percent, total)
        ELSE calculated

NewDay(hdr, r) ==
    [date |-> dateStringOf(r),
     dayOfWeek |-> ToStringOrEmpty(CellAt(r, 1)),
     totalViewers |-> totalDailyViewersOf(hdr, r),
     hourlyViewers |-> ZeroArray24,
     hourlyPercentages |-> ZeroArray24]

WriteHourSummed(day, hour, viewers, percent) ==
    [day EXCEPT !.hourlyViewers =
                    ArraySet(@, hour, (IF hour \in DOMAIN @ THEN @[hour] ELSE 0) + viewers),
                !.hourlyPercentages = ArraySet(@, hour, percent)]

\* dayData.hourlyViewers[hour] = ..; dayData.hourlyPercentages[hour] = ..
WriteHour(day, hour, viewers, percent) ==
    [day EXCEPT !.hourlyViewers = ArraySet(@, hour, viewers),
                !.hourlyPercentages = ArraySet(@, hour, percent)]

\* the three audiences of one hour
AgeFields == {"viewers13Plus", "viewers50Plus", "viewers65Plus"}

ZeroAgeGroups == [f \in AgeFields |-> 0]

\* Array(24).fill(null).map(() => ({viewers13Plus: 0, viewers50Plus: 0, viewers65Plus: 0}))
ZeroAgeGroups24 == [h \in 0..23 |-> ZeroAgeGroups]

\* the shares of the hour, in hundredths
getAgeGroupDistributionForHour(hour) ==
    IF hour >= 6 /\ hour < 12
    THEN [viewers13Plus |-> 40, viewers50Plus |-> 35, viewers65Plus |-> 25]
    ELSE IF hour >= 12 /\ hour < 18
    THEN [viewers13Plus |-> 55, viewers50Plus |-> 30, viewers65Plus |-> 15]
    ELSE IF hour >= 18 /\ hour < 22
    THEN [viewers13Plus |-> 45, viewers50Plus |-> 35, viewers65Plus |-> 20]
    ELSE IF hour >= 22 \/ hour < 2
    THEN [viewers13Plus |-> 65, viewers50Plus |-> 25, viewers65Plus |-> 10]
    ELSE [viewers13Plus |-> 35, viewers50Plus |-> 40, viewers65Plus |-> 25]

\* Math.round(hourlyViewers * share) for each audience, in hundredths
AgeGroupsOf(hour, viewers) ==
    [f \in AgeFields |->
        100 * Round(viewers * getAgeGroupDistributionForHour(hour)[f], 10000)]

\* dayData.ageGroups, created with 24 zero records on the first row of the day
AgeGroupsOfDay(day) ==
    IF "ageGroups" \in DOMAIN day THEN day.ageGroups ELSE ZeroAgeGroups24

WriteAgeGroupsAlways(day, hour, viewers) ==
    [f \in DOMAIN day \cup {"ageGroups"} |->
        IF f # "ageGroups" THEN day[f]
        ELSE IF hour \in DOMAIN AgeGroupsOfDay(day)
             THEN ArraySet(AgeGroupsOfDay(day), hour,
                           IF viewers > 0 THEN AgeGroupsOf(hour, viewers) ELSE ZeroAgeGroups)
             ELSE AgeGroupsOfDay(day)]

\* if (dayData.ageGroups[hour] && hourlyViewers > 0) dayData.ageGroups[hour] = {..}
WriteAgeGroups(day, hour, viewers) ==
    [f \in DOMAIN day \cup {"ageGroups"} |->
        IF f # "ageGroups" THEN day[f]
        ELSE IF hour \in DOMAIN AgeGroupsOfDay(day) /\ viewers > 0
             THEN ArraySet(AgeGroupsOfDay(day), hour, AgeGroupsOf(hour, viewers))
             ELSE AgeGroupsOfDay(day)]

WithDayOfLastRow(hdr, map, r) ==
    IF DayIndex(map, dateStringOf(r)) = 0 THEN Append(map, NewDay(hdr, r))
    ELSE [map EXCEPT ![DayIndex(map, dateStringOf(r))].totalViewers = totalDailyViewersOf(hdr, r)]

\* if (!daysMap.has(dateString)) daysMap.set(dateString, {...})
WithDay(hdr, map, r) ==
    IF DayIndex(map, dateStringOf(r)) = 0 THEN Append(map, NewDay(hdr, r)) ELSE map

\* the body of the loop over the data rows, applied to one row
ProcessRow(hdr, map, r) ==
    IF ~RowAccepted(hdr, r) THEN map
    ELSE LET hour == extractHourFromTimeSlot(ToStringOrEmpty(CellAt(r, 2)))
             known == DayIndex(map, dateStringOf(r))
             withDay == WithDay(hdr, map, r)
             k == IF known = 0 THEN Len(withDay) ELSE known
         IN  [withDay EXCEPT ![k] =
                 WriteAgeGroups(
                     WriteHour(@, hour, hourlyViewersOf(hdr, r), PercentOf(hdr, r)),
                     hour, hourlyViewersOf(hdr, r))]

---------------------------------------------------------------------------
(* JS arithmetic on numbers that may be NaN *)

JsAdd(a, b) == IF a = NaN \/ b = NaN THEN NaN ELSE a + b

JsMax(a, b) == IF a = NaN \/ b = NaN THEN NaN ELSE IF a >= b THEN a ELSE b

\* Math.round(sum / count), sum in hundredths
JsRoundDiv(sum, count) == IF sum = NaN THEN NaN ELSE 100 * Round(sum, 100 * count)

\* Math.max(...arr): a hole spreads as undefined, and undefined or NaN gives NaN
SpreadMax(arr) ==
    IF \/ ArrayLength(arr) # Cardinality(DOMAIN arr)
       \/ \E k \in DOMAIN arr : arr[k] = NaN
    THEN NaN
    ELSE Max({arr[k] : k \in DOMAIN arr})

---------------------------------------------------------------------------
(* processViewerData: from the Map of days to the returned summary *)

\* acc[hour] = viewers: the hours of a later day replace those of an earlier day
AddHoursOverwrite(acc, hv) ==
    [k \in DOMAIN acc \cup DOMAIN hv |-> IF k \in DOMAIN hv THEN hv[k] ELSE acc[k]]

\* acc[hour] += viewers over one day's hourlyViewers.forEach
AddHours(acc, hv) ==
    [k \in DOMAIN acc \cup DOMAIN hv |->
        IF k \notin DOMAIN hv THEN acc[k]
        ELSE IF k \notin DOMAIN acc THEN NaN
        ELSE JsAdd(acc[k], hv[k])]

\* acc[hour] = Math.max(acc[hour], viewers) over one day's hourlyViewers.forEach
MaxHours(acc, hv) ==
    [k \in DOMAIN acc \cup DOMAIN hv |->
        IF k \notin DOMAIN hv THEN acc[k]
        ELSE IF k \notin DOMAIN acc THEN NaN
        ELSE JsMax(acc[k], hv[k])]

RECURSIVE monthTotalViewersPerHour(_)
monthTotalViewersPerHour(days) ==
    IF Len(days) = 0 THEN ZeroArray24
    ELSE AddHours(monthTotalViewersPerHour(SubSeq(days, 1, Len(days) - 1)),
                  days[Len(days)].hourlyViewers)

RECURSIVE monthMaxViewersPerHour(_)
monthMaxViewersPerHour(days) ==
    IF Len(days) = 0 THEN ZeroArray24
    ELSE MaxHours(monthMaxViewersPerHour(SubSeq(days, 1, Len(days) - 1)),
                  days[Len(days)].hourlyViewers)

monthAverageHourlyViewers(days) ==
    LET sums == monthTotalViewersPerHour(days)
    IN  [k \in DOMAIN sums |->
            IF Len(days) > 0 /\ k < 24 THEN JsRoundDiv(sums[k], Len(days)) ELSE sums[k]]

\* days.reduce((max, day) => day.totalViewers > max.totalViewers ? day : max, ..).date
RECURSIVE PeakDayOf(_)
PeakDayOf(days) ==
    IF Len(days) = 0 THEN [totalViewers |-> 0, date |-> <<>>]
    ELSE LET max == PeakDayOf(SubSeq(days, 1, Len(days) - 1))
             day == days[Len(days)]
         IN  IF day.totalViewers > max.totalViewers
             THEN [totalViewers |-> day.totalViewers, date |-> day.date]
             ELSE max

monthPeakDay(days) ==
    IF Len(days) > 0 THEN PeakDayOf(days).date ELSE <<"Geen data">>

\* the indices of the hours that hold Math.max(...totalViewersPerHour)
PeakHoursIndices(totals) ==
    LET maxTotalViewers == SpreadMax(totals)
    IN  {k \in DOMAIN totals :
            maxTotalViewers # NaN /\ totals[k] # NaN /\ totals[k] = maxTotalViewers}

\* the latest evening hour among the tied hours, else the latest tied hour
monthPeakHour(totals) ==
    LET peaks == PeakHoursIndices(totals)
        evening == {k \in peaks : k >= 18 /\ k <= 23}
        peakHourIndex == IF peaks = {} THEN 0
                         ELSE IF evening # {} THEN Max(evening)
                         ELSE Max(peaks)
    IN  IF peakHourIndex >= 0 /\ peakHourIndex < 24 THEN peakHourIndex ELSE 0

\* days.reduce((sum, day) => sum + day.totalViewers, 0)
RECURSIVE monthTotalViewers(_)
monthTotalViewers(days) ==
    IF Len(days) = 0 THEN 0
    ELSE JsAdd(monthTotalViewers(SubSeq(days, 1, Len(days) - 1)),
               days[Len(days)].totalViewers)

\* the days with viewers in the order of the Map
FinalDaysUnsorted(map) == SelectSeq(map, LAMBDA day : day.totalViewers > 0)

\* Array.from(daysMap.values()).filter(day => day.totalViewers > 0).sort(..)
FinalDays(map) == SortByDate(SelectSeq(map, LAMBDA day : day.totalViewers > 0))

\* acc[hourIndex].x += hourData.x over one day's ageGroups.forEach
AddAgeGroups(acc, groups) ==
    [h \in DOMAIN acc |->
        IF h \in DOMAIN groups THEN [f \in AgeFields |-> acc[h][f] + groups[h][f]]
        ELSE acc[h]]

\* totalAgeGroups after days.forEach(day => { if (day.ageGroups) .. })
RECURSIVE monthTotalAgeGroups(_)
monthTotalAgeGroups(days) ==
    IF Len(days) = 0 THEN ZeroAgeGroups24
    ELSE LET before == monthTotalAgeGroups(SubSeq(days, 1, Len(days) - 1))
             day == days[Len(days)]
         IN  IF "ageGroups" \in DOMAIN day THEN AddAgeGroups(before, day.ageGroups)
             ELSE before

\* averageAgeGroups: the sums, each divided by days.length and rounded
AverageAgeGroupsOf(sums, count) ==
    [h \in DOMAIN sums |->
        [f \in AgeFields |->
            IF count > 0 THEN JsRoundDiv(sums[h][f], count) ELSE sums[h][f]]]

\* the object processViewerData returns for the sorted days with their totals
SummaryOf(days, totals, monthYear) ==
    [monthYear |-> monthYear,
     days |-> days,
     averageHourlyViewers |-> monthAverageHourlyViewers(days),
     maxViewersPerHour |-> monthMaxViewersPerHour(days),
     totalViewersPerHour |-> totals,
     averageAgeGroups |-> AverageAgeGroupsOf(monthTotalAgeGroups(days), Len(days)),
     totalAgeGroups |-> monthTotalAgeGroups(days),
     peakDay |-> monthPeakDay(days),
     peakHour |-> monthPeakHour(totals),
     totalViewers |-> monthTotalViewers(days)]

SummaryOfDays(days, monthYear) ==
    SummaryOf(days, monthTotalViewersPerHour(days), monthYear)

\* the object processViewerData returns for the days of the Map
Summarize(map, monthYear) == SummaryOfDays(FinalDays(map), monthYear)

---------------------------------------------------------------------------
(* processViewerData as a whole *)

\* the last row that is a header row, 0 when no row is one
headerRowIndexLast(data) ==
    IF \E k \in 1..Len(data) : IsHeaderRow(data[k])
    THEN CHOOSE k \in 1..Len(data) :
             IsHeaderRow(data[k]) /\ \A m \in (k + 1)..Len(data) : ~IsHeaderRow(data[m])
    ELSE 0

\* data.findIndex(row => row && row.length > 2 && row[0] === "Datum" && ..), 1-based;
\* 0 when no row is the header row
headerRowIndex(data) ==
    IF \E k \in 1..Len(data) : IsHeaderRow(data[k])
    THEN CHOOSE k \in 1..Len(data) :
             IsHeaderRow(data[k]) /\ \A m \in 1..(k - 1) : ~IsHeaderRow(data[m])
    ELSE 0

\* the loop over the rows data[from..], started with the Map `map`
RECURSIVE ProcessRows(_, _, _, _)
ProcessRows(hdr, map, data, from) ==
    IF from > Len(data) THEN map
    ELSE ProcessRows(hdr, ProcessRow(hdr, map, data[from]), data, from + 1)

\* threw: "Could not find header row in Excel file"; else summary = <<the result>>
processViewerData(data, monthYear) ==
    LET at == headerRowIndex(data)
    IN  IF at = 0 THEN [threw |-> TRUE, summary |-> <<>>]
        ELSE [threw |-> FALSE,
              summary |-> <<Summarize(ProcessRows(data[at], <<>>, data, at + 1),
                                      monthYear)>>]

---------------------------------------------------------------------------
(* aggregateMonthsData *)

\* the days of one month added to the Map, a date already held keeping its record
RECURSIVE SetDaysKeepFirst(_, _)
SetDaysKeepFirst(map, days) ==
    IF Len(days) = 0 THEN map
    ELSE LET before == SetDaysKeepFirst(map, SubSeq(days, 1, Len(days) - 1))
             day == days[Len(days)]
         IN  IF DayIndex(before, day.date) = 0 THEN Append(before, day) ELSE before

\* allDaysMap.set(day.date, {...day}) for every day of one month
RECURSIVE SetDays(_, _)
SetDays(map, days) ==
    IF Len(days) = 0 THEN map
    ELSE LET before == SetDays(map, SubSeq(days, 1, Len(days) - 1))
             day == days[Len(days)]
             known == DayIndex(before, day.date)
         IN  IF known = 0 THEN Append(before, day)
             ELSE [before EXCEPT ![known] = day]

\* the Map of all days of all months, in insertion order
RECURSIVE allDaysMap(_)
allDaysMap(months) ==
    IF Len(months) = 0 THEN <<>>
    ELSE SetDays(allDaysMap(SubSeq(months, 1, Len(months) - 1)),
                 months[Len(months)].days)

allDays(months) == SortByDate(allDaysMap(months))

RECURSIVE aggTotalViewersPerHour(_)
aggTotalViewersPerHour(days) ==
    IF Len(days) = 0 THEN ZeroArray24
    ELSE AddHours(aggTotalViewersPerHour(SubSeq(days, 1, Len(days) - 1)),
                  days[Len(days)].hourlyViewers)

RECURSIVE aggMaxViewersPerHour(_)
aggMaxViewersPerHour(days) ==
    IF Len(days) = 0 THEN ZeroArray24
    ELSE MaxHours(aggMaxViewersPerHour(SubSeq(days, 1, Len(days) - 1)),
                  days[Len(days)].hourlyViewers)

\* the hourly sums divided by the number of days that have viewers in the hour
aggAverageOverActiveDays(days) ==
    LET sums == aggTotalViewersPerHour(days)
    IN  [k \in DOMAIN sums |->
            IF Len(days) > 0 /\ k < 24
            THEN JsRoundDiv(sums[k],
                     Max({1, Cardinality({d \in 1..Len(days) :
                                            days[d].hourlyViewers[k] > 0})}))
            ELSE sums[k]]

\* averageHourlyViewers[i] = Math.round(averageHourlyViewers[i] / allDays.length)
aggAverageHourlyViewers(days) ==
    LET sums == aggTotalViewersPerHour(days)
    IN  [k \in DOMAIN sums |->
            IF Len(days) > 0 /\ k < 24 THEN JsRoundDiv(sums[k], Len(days)) ELSE sums[k]]

\* the latest evening hour among the tied hours, else the latest tied hour
aggPeakHour(totals) ==
    LET peaks == PeakHoursIndices(totals)
        evening == {k \in peaks : k >= 18 /\ k <= 23}
        peakHourIndex == IF peaks = {} THEN 0
                         ELSE IF evening # {} THEN Max(evening)
                         ELSE Max(peaks)
    IN  IF peakHourIndex >= 0 /\ peakHourIndex < 24 THEN peakHourIndex ELSE 0

\* allDays.reduce((sum, day) => sum + day.totalViewers, 0)
RECURSIVE aggTotalViewers(_)
aggTotalViewers(days) ==
    IF Len(days) = 0 THEN 0
    ELSE JsAdd(aggTotalViewers(SubSeq(days, 1, Len(days) - 1)),
               days[Len(days)].totalViewers)

\* `Samenvatting (${first} - ${first})`
aggMonthYearOfFirst(months) ==
    <<"Samenvatting (">> \o months[1].monthYear \o <<" - ">>
        \o months[1].monthYear \o <<")">>

\* `Samenvatting (${first} - ${last})`
aggMonthYear(months) ==
    <<"Samenvatting (">> \o months[1].monthYear \o <<" - ">>
        \o months[Len(months)].monthYear \o <<")">>

\* hasAgeData: some month carries totalAgeGroups or averageAgeGroups
hasAgeData(months) ==
    \E m \in 1..Len(months) :
        "totalAgeGroups" \in DOMAIN months[m] \/ "averageAgeGroups" \in DOMAIN months[m]

\* totalAgeGroups[hour].x += hourData.x over the totalAgeGroups of every month
RECURSIVE aggTotalAgeGroups(_)
aggTotalAgeGroups(months) ==
    IF Len(months) = 0 THEN ZeroAgeGroups24
    ELSE LET before == aggTotalAgeGroups(SubSeq(months, 1, Len(months) - 1))
             monthData == months[Len(months)]
         IN  IF "totalAgeGroups" \in DOMAIN monthData
             THEN AddAgeGroups(before, monthData.totalAgeGroups)
             ELSE before

\* hourData.x * weight for weight = monthData.days.length
Weighted(groups, weight) ==
    [h \in DOMAIN groups |-> [f \in AgeFields |-> groups[h][f] * weight]]

\* averageAgeGroups[hour].x += hourData.x * weight over every month
RECURSIVE aggWeightedAgeGroups(_)
aggWeightedAgeGroups(months) ==
    IF Len(months) = 0 THEN ZeroAgeGroups24
    ELSE LET before == aggWeightedAgeGroups(SubSeq(months, 1, Len(months) - 1))
             monthData == months[Len(months)]
         IN  IF "averageAgeGroups" \in DOMAIN monthData
             THEN AddAgeGroups(before, Weighted(monthData.averageAgeGroups,
                                                Len(monthData.days)))
             ELSE before

\* the number of days of all months together, a date counted once per month
RECURSIVE DaysOfAllMonths(_)
DaysOfAllMonths(months) ==
    IF Len(months) = 0 THEN 0
    ELSE DaysOfAllMonths(SubSeq(months, 1, Len(months) - 1))
             + Len(months[Len(months)].days)

aggAverageAgeGroupsPerInputDay(months, days) ==
    AverageAgeGroupsOf(aggWeightedAgeGroups(months), DaysOfAllMonths(months))

\* the weighted sums, each divided by allDays.length and rounded
aggAverageAgeGroups(months, days) ==
    AverageAgeGroupsOf(aggWeightedAgeGroups(months), Len(days))

\* averageAgeGroups and totalAgeGroups of the aggregate, undefined without age data
AggregateAgeGroups(months, days) ==
    IF hasAgeData(months)
    THEN [averageAgeGroups |-> aggAverageAgeGroups(months, days),
          totalAgeGroups |-> aggTotalAgeGroups(months)]
    ELSE <<>>

\* the object aggregateMonthsData returns for the sorted days with their totals
AggregateOf(months, days, totals) ==
  AggregateAgeGroups(months, days) @@
    [monthYear |-> aggMonthYear(months),
     days |-> days,
     averageHourlyViewers |-> aggAverageHourlyViewers(days),
     maxViewersPerHour |-> aggMaxViewersPerHour(days),
     totalViewersPerHour |-> totals,
     peakDay |-> PeakDayOf(days).date,
     peakHour |-> aggPeakHour(totals),
     totalViewers |-> aggTotalViewers(days)]

AggregateOfDays(months, days) ==
    AggregateOf(months, days, aggTotalViewersPerHour(days))

\* aggregateMonthsData(monthsData) for one or more months
aggregateMonthsData(months) ==
    IF Len(months) = 1 THEN months[1]
    ELSE AggregateOfDays(months, allDays(months))

---------------------------------------------------------------------------
(* The stored months: handleFileChange and handleDataProcessed *)

\* monthOrder[monthName] || 0
monthOrder(name) ==
    CASE name = "Januari" -> 1 [] name = "Februari" -> 2 [] name = "Maart" -> 3
      [] name = "April" -> 4 [] name = "Mei" -> 5 [] name = "Juni" -> 6
      [] name = "Juli" -> 7 [] name = "Augustus" -> 8 [] name = "September" -> 9
      [] name = "Oktober" -> 10 [] name = "November" -> 11 [] name = "December" -> 12
      [] OTHER -> 0

\* the words of the labels that are four digits, with their value
yearOf(word) ==
    CASE word = "2024" -> 2024 [] word = "2025" -> 2025 [] OTHER -> 0

IsLetters(word) == monthOrder(word) # 0 \/ word \in {"Unknown", "Month"}

\* text.match(/([A-Za-z]+)\s+(\d{4})/): month number and year, 0 and 0 without a match
getMonthYear(text) ==
    LET hits == {k \in 1..(Len(text) - 2) :
                    IsLetters(text[k]) /\ text[k + 1] = " " /\ yearOf(text[k + 2]) # 0}
    IN  IF hits = {} THEN [month |-> 0, year |-> 0]
        ELSE LET k == CHOOSE k \in hits : \A m \in hits : k <= m
             IN  [month |-> monthOrder(text[k]), year |-> yearOf(text[k + 2])]

CompareMonths(a, b) ==
    LET aInfo == getMonthYear(a.monthYear)
        bInfo == getMonthYear(b.monthYear)
    IN  IF aInfo.year # bInfo.year THEN aInfo.year - bInfo.year
        ELSE aInfo.month - bInfo.month

\* [...months].sort(..): stable insertion
RECURSIVE sortMonthsChronologically(_)
sortMonthsChronologically(months) ==
    IF Len(months) <= 1 THEN months
    ELSE LET sorted == sortMonthsChronologically(SubSeq(months, 1, Len(months) - 1))
             last == months[Len(months)]
             keep == {k \in 0..Len(sorted) :
                         \A m \in (k + 1)..Len(sorted) : CompareMonths(sorted[m], last) > 0}
             at == CHOOSE k \in keep : \A m \in keep : k <= m
         IN  SubSeq(sorted, 1, at) \o <<last>> \o SubSeq(sorted, at + 1, Len(sorted))

StoreMonthAppended(prevData, processedData) == Append(prevData, processedData)

\* the setter handleFileChange passes on: replace the month of the same name or append
StoreMonth(prevData, processedData) ==
    LET same == {k \in 1..Len(prevData) : prevData[k].monthYear = processedData.monthYear}
    IN  IF same # {}
        THEN [prevData EXCEPT ![CHOOSE k \in same : \A m \in same : k <= m] = processedData]
        ELSE Append(prevData, processedData)

\* handleDataProcessed(setter)
handleDataProcessed(prevData, processedData) ==
    sortMonthsChronologically(StoreMonth(prevData, processedData))

---------------------------------------------------------------------------
(* SpecHour: extractHourFromTimeSlot applied to every enumerated token *)

RECURSIVE StringsUpTo(_)
StringsUpTo(n) ==
    IF n = 0 THEN {<<>>}
    ELSE LET shorter == StringsUpTo(n - 1)
         IN  shorter \cup {Append(s, c) : s \in {t \in shorter : Len(t) = n - 1}, c \in Chars}

StdToken(a, b, c, d) == <<a, b, ":", "0", "0", "-", c, d, ":", "5", "9">>
DashToken(a, b, c, d) == <<a, b, "-", c, d>>
SimpleToken1(a) == <<a, ":", "0", "0">>
SimpleToken2(a, b) == <<a, b, ":", "0", "0">>

Tokens ==
    StringsUpTo(MaxTokenLen)
        \cup {StdToken(a, b, c, d) : a \in Digits, b \in Digits, c \in Digits, d \in Digits}

InitHour ==
    /\ pc = "parse"
    /\ timeSlot \in Tokens
    /\ hourOut = NOT_FOUND
    /\ header = <<>> /\ i = 0 /\ row = <<>> /\ daysMap = <<>> /\ replaced = <<>>
    /\ result = <<>>
    /\ monthsData = <<>> /\ combined = <<>> /\ error = <<>>
    /\ jsonData = <<>>
    /\ NoSchedule
    /\ NoBatch

ParseHour ==
    /\ pc = "parse"
    /\ hourOut' = extractHourFromTimeSlot(timeSlot)
    /\ pc' = "parsed"
    /\ UNCHANGED <<timeSlot, rowVars, sessionVars, fileVars>>

NextHour == ParseHour

SpecHour == InitHour /\ [][NextHour]_vars

---------------------------------------------------------------------------
(* Claims about extractHourFromTimeSlot, checked under SpecHour *)

\* C5: extractHourFromTimeSlot returns, for every token, either NOT_FOUND (-1)
\* or an hour in 0..23; a token whose hour digits are above 26 gives NOT_FOUND.
C5_HourInRange ==
    pc = "parsed" => hourOut \in {NOT_FOUND} \cup 0..23

\* a token of a recognized shape: "d" stands for any digit
ShapeTemplates ==
    {<<"d", "d", ":", "0", "0", "-", "d", "d", ":", "5", "9">>,
     <<"d", "d", "-", "d", "d">>,
     <<"d", ":", "0", "0">>,
     <<"d", "d", ":", "0", "0">>}

FitsTemplate(ts, tpl) ==
    /\ Len(ts) = Len(tpl)
    /\ \A k \in 1..Len(tpl) :
          IF tpl[k] = "d" THEN ts[k] \in AllDigits ELSE ts[k] = tpl[k]

RecognizedShape(ts) == \E tpl \in ShapeTemplates : FitsTemplate(ts, tpl)

\* the number written by the digits that open a token of a recognized shape
LeadingHour(ts) ==
    IF ts[2] \in AllDigits THEN 10 * DigitVal(ts[1]) + DigitVal(ts[2])
    ELSE DigitVal(ts[1])

---------------------------------------------------------------------------
(* SpecRows: processViewerData below a header row, one data row at a time *)

Date1 == <<"0", "1", "-", "1", "2", "-", "2", "0", "2", "4">>
Date2 == <<"1", "5", "-", "1", "1", "-", "2", "0", "2", "4">>

Slot20 == <<"2", "0", "-", "2", "1">>
Slot25 == <<"2", "5", ":", "0", "0", "-", "2", "5", ":", "5", "9">>
Slot27 == <<"2", "7", ":", "0", "0">>
Slot03 == <<"0", "3", ":", "0", "0">>

HeaderStart == <<Str(<<"Datum">>), Str(<<"Dag">>), Str(<<"Tijdvak">>)>>

HeaderPositional == HeaderStart \o <<Str(<<"Kdh%", "13+">>), Str(<<"Kdh%", "50+">>)>>
HeaderNamed == HeaderStart \o <<Str(<<"Dagcijfers">>), Str(<<"TOTAL">>)>>
HeaderCalculated ==
    HeaderNamed \o <<Str(<<"Kijkcijfers", "per", "programma">>)>>

Headers == {HeaderStart, HeaderPositional, HeaderNamed, HeaderCalculated}

\* rows <<Datum, Dag, Tijdvak, day total, percentage>> and the same with a sixth cell
RegularRows ==
    LET five == {<<Str(d), Str(<<"zo">>), Str(ts), Num(20000), pct>> :
                    d \in {Date1, Date2},
                    ts \in {Slot20, Slot25, Slot27},
                    pct \in {Num(50), Num(2500)}}
    IN  five \cup {Append(r, c) : r \in five, c \in {Num(0), Num(3000)}}

\* rows whose day total is 0
ZeroTotalRows ==
    LET five == {<<Str(d), Str(<<"zo">>), Str(Slot20), Num(0), Num(50)>> :
                    d \in {Date1, Date2}}
    IN  five \cup {Append(r, Num(3000)) : r \in five}

\* the text 1-12-2024, a date cell that is no serial number and not padded
ShortDate == <<"1", "-", "1", "2", "-", "2", "0", "2", "4">>

IrregularRows ==
    {<<Str(Date1), Str(<<"zo">>), Str(Slot20)>>,
     <<Empty, Str(<<"zo">>), Str(Slot20), Num(20000), Num(50)>>,
     <<Str(Date1), Str(<<"zo">>), Str(<<"x">>), Num(20000), Num(50)>>,
     <<Str(Date1), Str(<<"zo">>), Empty, Num(20000), Num(50)>>,
     <<Str(Date1), Str(<<"zo">>), Str(Slot20), Num(20000), Empty>>,
     <<Num(4562700), Str(<<"zo">>), Str(Slot20), Num(20000), Num(50)>>,
     <<Str(ShortDate), Str(<<"zo">>), Str(Slot20), Num(20000), Num(50)>>,
     <<Str(Date1), Str(<<"zo">>), Str(Slot03), Num(20000), Num(50)>>}

RowSet == RegularRows \cup ZeroTotalRows \cup IrregularRows

RowsLabel == <<"December", " ", "2024">>

\* the hour of an accepted row and the day record it writes to
HourOfRow(r) == extractHourFromTimeSlot(ToStringOrEmpty(CellAt(r, 2)))
DayOfRow(map, r) == map[DayIndex(map, dateStringOf(r))]

\* <<v>> when row r overwrites the value v its day already holds for its hour
OverwrittenBy(hdr, map, r) ==
    IF /\ RowAccepted(hdr, r)
       /\ DayIndex(map, dateStringOf(r)) # 0
       /\ HourOfRow(r) \in DOMAIN DayOfRow(map, r).hourlyViewers
    THEN <<DayOfRow(map, r).hourlyViewers[HourOfRow(r)]>>
    ELSE <<>>

InitRows ==
    /\ pc = "rows"
    /\ header \in Headers
    /\ i = 0
    /\ row = <<>>
    /\ daysMap = <<>>
    /\ replaced = <<>>
    /\ result = <<>>
    /\ timeSlot = <<>> /\ hourOut = NOT_FOUND
    /\ monthsData = <<>> /\ combined = <<>> /\ error = <<>>
    /\ jsonData = <<>>
    /\ NoSchedule
    /\ NoBatch

\* one iteration of `for (let i = dataStartRow; i < data.length; i++)`
ReadRow ==
    /\ pc = "rows"
    /\ i < MaxRows
    /\ \E r \in RowSet :
          /\ row' = <<r>>
          /\ daysMap' = ProcessRow(header, daysMap, r)
          /\ replaced' = OverwrittenBy(header, daysMap, r)
    /\ i' = i + 1
    /\ UNCHANGED <<pc, header, result, timeSlot, hourOut, sessionVars, fileVars>>

\* the rows are exhausted: filter, sort, aggregate and return
ReturnSummary ==
    /\ pc = "rows"
    /\ result' = <<Summarize(daysMap, RowsLabel)>>
    /\ pc' = "returned"
    /\ UNCHANGED <<header, i, row, daysMap, replaced, timeSlot, hourOut, sessionVars, fileVars>>

NextRows == ReadRow \/ ReturnSummary

SpecRows == InitRows /\ [][NextRows]_vars

---------------------------------------------------------------------------
(* Claims about the loop over the data rows, checked under SpecRows *)

\* the row read last, when the loop body ran to its end for it
LastRowAccepted == row # <<>> /\ RowAccepted(header, row[1])

\* hourlyViewers[hour] of the record of the row read last
LastWritten == DayOfRow(daysMap, row[1]).hourlyViewers[HourOfRow(row[1])]

DayRecordShape(day) ==
    /\ DOMAIN day.hourlyViewers = 0..23
    /\ DOMAIN day.hourlyPercentages = 0..23
    /\ day.totalViewers >= 0

\* C7: after any sequence of data rows every DailyRecord has exactly 24
\* hourlyViewers and 24 hourlyPercentages slots and totalViewers >= 0.
C7_TwentyFourSlots ==
    /\ \A k \in 1..Len(daysMap) : DayRecordShape(daysMap[k])
    /\ \A s \in 1..Len(result) :
          \A k \in 1..Len(result[s].days) : DayRecordShape(result[s].days[k])

\* C8: after an accepted row, hourlyViewers[hour] of its date holds the value
\* computed from that row only, whatever an earlier row of the same date and
\* hour had written (last write wins, nothing is summed).
C8_LastWriteWins ==
    LastRowAccepted => LastWritten = hourlyViewersOf(header, row[1])

\* the row read last replaced a different, non-zero value of an earlier row
C8_Witness ==
    /\ LastRowAccepted
    /\ replaced # <<>>
    /\ replaced[1] # 0
    /\ LastWritten # 0
    /\ LastWritten # replaced[1]

\* the hundredths v are the whole number nearest to product / 1000000, halves up
IsRounded(v, product) ==
    /\ v % 100 = 0
    /\ 2 * (v \div 100) * 1000000 - 1000000 <= 2 * product
    /\ 2 * product < 2 * (v \div 100) * 1000000 + 1000000

\* percentage * totalDailyViewers of a row, in millionths: the raw percentage
\* figure counts as a fraction up to 1 and as a whole-number percentage above
RowProduct(hdr, r) ==
    LET raw == NumberOrZero(CellAt(r, percentageColumnIndex(hdr)))
        total == NumberOrZero(CellAt(r, totalViewersColumnIndex(hdr)))
    IN  IF raw > 100 THEN raw * total ELSE 100 * raw * total

\* the row has a non-zero value in a recognized "calculated viewers" column
HasCalculated(hdr, r) ==
    /\ \E k \in 1..Len(hdr) : IsKijkcijfersHeader(hdr[k])
    /\ LET c == CellAt(r, kijkcijfersColumnIndex(hdr))
       IN  c.t = "num" /\ c.n # 0

C10_NeverPrecalculated ==
    LastRowAccepted => IsRounded(LastWritten, RowProduct(header, row[1]))

---------------------------------------------------------------------------
(* Spec: viewer files are uploaded one after another, the stored months    *)
(* are kept in chronological order and the aggregate view combines them    *)

Date3 == <<"3", "0", "-", "1", "1", "-", "2", "0", "2", "4">>

Slot02 == <<"2", "6", "-", "0", "0">>
Slot11 == <<"1", "1", ":", "0", "0", "-", "1", "1", ":", "5", "9">>
Slot22 == <<"2", "2", ":", "0", "0">>

LabelNovember == <<"November", " ", "2024">>
LabelDecember == <<"December", " ", "2024">>

\* a row <<Datum, Dag, Tijdvak, day total, percentage>> below HeaderNamed
ViewerRow(date, slot, total, pct) ==
    <<Str(date), Str(<<"zo">>), Str(slot), Num(total), Num(pct)>>

\* the rows of the file of December: hours 11 and 20 of one day with 100
\* viewers each, a slot "27:00" and a row of a day without viewers
DecemberRows ==
    {ViewerRow(Date1, Slot11, 20000, 5000),
     ViewerRow(Date1, Slot20, 20000, 50),
     ViewerRow(Date1, Slot27, 20000, 5000),
     ViewerRow(Date1, Slot20, 0, 5000)}

\* the rows of the file of November: hour 22 of one day, hours 2 and 20 of
\* another day, and a row dated in December
NovemberRows ==
    {ViewerRow(Date2, Slot22, 20000, 5000),
     ViewerRow(Date3, Slot02, 20000, 50),
     ViewerRow(Date3, Slot20, 20000, 7500),
     ViewerRow(Date1, Slot20, 20000, 7500)}

RECURSIVE RowSeqs(_, _)
RowSeqs(rows, n) ==
    IF n = 0 THEN {<<>>}
    ELSE LET shorter == RowSeqs(rows, n - 1)
         IN  shorter \cup {Append(s, r) : s \in {t \in shorter : Len(t) = n - 1}, r \in rows}

\* the first sheet of a file: the header row and up to MaxRows rows, or rows only
GridsOf(rows) ==
    {<<HeaderNamed>> \o s : s \in RowSeqs(rows, MaxRows)}
        \cup {<<r>> : r \in rows}

\* a file: the label extractMonthYearFromFilename gives its name, and its sheet
Files ==
    {[monthYear |-> LabelNovember, data |-> g] : g \in GridsOf(NovemberRows)}
        \cup {[monthYear |-> LabelDecember, data |-> g] : g \in GridsOf(DecemberRows)}

\* processExcelFile(file) for every file
Processed == [f \in Files |-> processViewerData(f.data, f.monthYear)]

NoHeaderMessage == <<"Could not find header row in Excel file">>

Init ==
    /\ pc = "session"
    /\ monthsData = <<>>
    /\ combined = <<>>
    /\ error = <<>>
    /\ timeSlot = <<>> /\ hourOut = NOT_FOUND
    /\ header = <<>> /\ i = 0 /\ row = <<>> /\ daysMap = <<>> /\ replaced = <<>>
    /\ result = <<>>
    /\ jsonData = <<>>
    /\ NoSchedule
    /\ NoBatch

\* the rest of handleFileChange once processExcelFile(file) has settled
FileProcessed(processedData) ==
    IF processedData.threw
    THEN /\ error' = NoHeaderMessage
         /\ UNCHANGED monthsData
    ELSE /\ error' = <<>>
         /\ monthsData' =
                IF Len(processedData.summary[1].days) = 0 THEN monthsData
                ELSE handleDataProcessed(monthsData, processedData.summary[1])

\* handleFileChange for one Excel file
UploadViewerFile ==
    /\ pc = "session"
    /\ \E f \in Files : FileProcessed(Processed[f])
    /\ combined' = <<>>
    /\ UNCHANGED <<pc, timeSlot, hourOut, rowVars, fileVars>>

\* getSelectedData() while showAggregate is set
ShowAggregate ==
    /\ pc = "session"
    /\ Len(monthsData) > 0
    /\ combined' = <<aggregateMonthsData(monthsData)>>
    /\ UNCHANGED <<pc, monthsData, error, timeSlot, hourOut, rowVars, fileVars>>

\* handleClearAllData, confirmed
ClearAllData ==
    /\ pc = "session"
    /\ monthsData' = <<>>
    /\ combined' = <<>>
    /\ UNCHANGED <<pc, error, timeSlot, hourOut, rowVars, fileVars>>

Next == UploadViewerFile \/ ShowAggregate \/ ClearAllData

Spec == Init /\ [][Next]_vars

---------------------------------------------------------------------------
(* SpecFile: processViewerData applied to a whole grid *)

\* rows that are not the header row: a title, an empty row, and rows that
\* miss the three markers by their case, by their order or by their number
TitleRow == <<Str(<<"Kijkcijfers", "december">>)>>
LowerCaseHeader == <<Str(<<"datum">>), Str(<<"Dag">>), Str(<<"Tijdvak">>), Str(<<"Dagcijfers">>),
                     Str(<<"TOTAL">>)>>
TwoCellHeader == <<Str(<<"Datum">>), Str(<<"Dag">>)>>

GridRows ==
    {HeaderNamed, TitleRow, LowerCaseHeader, TwoCellHeader,
     ViewerRow(Date1, Slot20, 20000, 50),
     ViewerRow(Date2, Slot22, 20000, 5000)}

\* the grids of up to MaxRows + 1 rows
Grids == RowSeqs(GridRows, MaxRows + 1)

InitFile ==
    /\ pc = "file"
    /\ jsonData \in Grids
    /\ NoSchedule
    /\ NoBatch
    /\ result = <<>>
    /\ error = <<>>
    /\ timeSlot = <<>> /\ hourOut = NOT_FOUND
    /\ header = <<>> /\ i = 0 /\ row = <<>> /\ daysMap = <<>> /\ replaced = <<>>
    /\ monthsData = <<>> /\ combined = <<>>

\* what the caller of processViewerData sees: the summary, or the error thrown
Returned(processedData) ==
    /\ result' = processedData.summary
    /\ error' = IF processedData.threw THEN NoHeaderMessage ELSE <<>>

\* processViewerData(jsonData, monthYear)
ProcessFile ==
    /\ pc = "file"
    /\ Returned(processViewerData(jsonData, RowsLabel))
    /\ pc' = "processed"
    /\ UNCHANGED <<jsonData, timeSlot, hourOut, header, i, row, daysMap, replaced,
                   monthsData, combined, scheduleVars, batchVars>>

NextFile == ProcessFile

SpecFile == InitFile /\ [][NextFile]_vars

---------------------------------------------------------------------------
(* Claims about the header row (SpecFile) and the returned days (SpecRows) *)

\* the first three cells of the row are exactly "Datum", "Dag", "Tijdvak"
HasMarkers(r) ==
    /\ Len(r) >= 3
    /\ r[1].t = "str" /\ r[1].s = <<"Datum">>
    /\ r[2].t = "str" /\ r[2].s = <<"Dag">>
    /\ r[3].t = "str" /\ r[3].s = <<"Tijdvak">>

MarkerRows == {k \in 1..Len(jsonData) : HasMarkers(jsonData[k])}

FirstMarkerRow == CHOOSE k \in MarkerRows : \A m \in MarkerRows : k <= m

\* the dates of the rows below row k
DatesBelow(k) ==
    {ToStringOrEmpty(CellAt(jsonData[j], 0)) : j \in (k + 1)..Len(jsonData)}

\* C11: processViewerData takes as header the first row whose first three
\* cells are exactly "Datum", "Dag", "Tijdvak" and processes only the rows
\* after it: the summary is that of the rows below this row, read with this
\* row as header, and every day of it is dated by a row below; without such a
\* row the call fails with
\* the header-not-found error and returns no summary.
C11_FirstHeaderRow ==
    pc = "processed" =>
        IF MarkerRows = {}
        THEN result = <<>> /\ error = NoHeaderMessage
        ELSE /\ error = <<>>
             /\ result = <<Summarize(ProcessRows(jsonData[FirstMarkerRow], <<>>, jsonData,
                                                  FirstMarkerRow + 1), RowsLabel)>>
             /\ Len(result) = 1
             /\ \A d \in 1..Len(result[1].days) :
                    result[1].days[d].date \in DatesBelow(FirstMarkerRow)

\* a data row, the header row and a data row of another date: only the day of
\* the row below the header is returned
C11_Witness ==
    /\ pc = "processed"
    /\ Len(jsonData) = 3
    /\ ~HasMarkers(jsonData[1]) /\ RowAccepted(HeaderNamed, jsonData[1])
    /\ HasMarkers(jsonData[2])
    /\ Len(result) = 1
    /\ Len(result[1].days) = 1
    /\ result[1].days[1].date # ToStringOrEmpty(CellAt(jsonData[1], 0))

\* <<year, month, day>> of a date written DD-MM-YYYY
YearMonthDay(date) ==
    LET parts == SplitDash(date)
    IN  <<parseInt(parts[3]), parseInt(parts[2]), parseInt(parts[1])>>

\* date a is not later in the calendar than date b
NotLater(a, b) ==
    LET x == YearMonthDay(a)
        y == YearMonthDay(b)
    IN  \/ x[1] < y[1]
        \/ x[1] = y[1] /\ x[2] < y[2]
        \/ x[1] = y[1] /\ x[2] = y[2] /\ x[3] <= y[3]

\* C12: the days list returned by processViewerData holds no record with
\* totalViewers <= 0 and is in ascending calendar order of its DD-MM-YYYY dates.
C12_DaysFilteredAndSorted ==
    \A s \in 1..Len(result) :
        \A k \in 1..Len(result[s].days) :
            /\ result[s].days[k].totalViewers > 0
            /\ \A j \in 1..(k - 1) :
                   NotLater(result[s].days[j].date, result[s].days[k].date)

\* two days were read in the order December, November and are returned in
\* the order November, December
C12_Witness ==
    /\ pc = "returned"
    /\ Len(daysMap) = 2
    /\ Len(result[1].days) = 2
    /\ daysMap[1].date = result[1].days[2].date
    /\ daysMap[2].date = result[1].days[1].date

---------------------------------------------------------------------------
(* Claims about the summaries, checked under Spec and SpecRows *)

\* the summaries at hand: every stored month and the aggregate on view
Summaries ==
    {monthsData[k] : k \in 1..Len(monthsData)} \cup {combined[k] : k \in 1..Len(combined)}

RECURSIVE SumOf(_)
SumOf(seq) == IF Len(seq) = 0 THEN 0 ELSE seq[1] + SumOf(Tail(seq))

\* C1: in every summary returned by processViewerData or aggregateMonthsData,
\* totalViewers is the sum of totalViewers over its days and, for every hour
\* h in 0..23, totalViewersPerHour[h] is the sum of hourlyViewers[h] over its days.
C1_TotalsAreSums ==
    \A s \in Summaries :
        /\ s.totalViewers = SumOf([k \in 1..Len(s.days) |-> s.days[k].totalViewers])
        /\ \A h \in 0..23 :
              s.totalViewersPerHour[h]
                  = SumOf([k \in 1..Len(s.days) |-> s.days[k].hourlyViewers[h]])

\* the aggregate of two months holds three days, 600 viewers in all and the
\* 100 and 150 viewers of hour 20 of two of its days as 250
C1_Witness ==
    /\ Len(monthsData) = 2
    /\ combined # <<>>
    /\ Len(combined[1].days) = 3
    /\ combined[1].totalViewers = 60000
    /\ combined[1].totalViewersPerHour[20] = 25000

\* the hours of 0..23 that hold the largest of the 24 hourly totals
TiedHours(s) ==
    {h \in 0..23 : \A g \in 0..23 : s.totalViewersPerHour[g] <= s.totalViewersPerHour[h]}

\* C2: with maxTotal the largest hourly total and T the hours that attain it,
\* peakHour is the largest hour of T within 18..23 when T has such an hour,
\* and the largest hour of T otherwise.
C2_PeakHourSelection ==
    \A s \in Summaries :
        LET T == TiedHours(s)
            evening == T \cap 18..23
        IN  s.peakHour = IF evening # {} THEN Max(evening) ELSE Max(T)

\* the selection of C2 for the summaries whose totalViewersPerHour has its 24
\* slots and no other: it holds for each of them
PeakHourOfProperTotals ==
    \A s \in Summaries :
        DOMAIN s.totalViewersPerHour = 0..23 =>
            LET T == TiedHours(s)
                evening == T \cap 18..23
            IN  s.peakHour = IF evening # {} THEN Max(evening) ELSE Max(T)

\* C3: a grid of the header row and no usable data row gives a summary with
\* no days, totalViewers 0 and peakHour 0.
C3_HeaderOnlySummary ==
    (pc = "returned" /\ daysMap = <<>>) =>
        /\ result[1].days = <<>>
        /\ result[1].totalViewers = 0
        /\ result[1].peakHour = 0

\* no date occurs in two of the months
DisjointDates(months) ==
    \A a \in 1..Len(months) : \A b \in 1..Len(months) :
        a # b => \A x \in 1..Len(months[a].days) : \A y \in 1..Len(months[b].days) :
                     months[a].days[x].date # months[b].days[y].date

RECURSIVE ConcatDays(_)
ConcatDays(months) ==
    IF Len(months) = 0 THEN <<>> ELSE months[1].days \o ConcatDays(Tail(months))

\* the hundredths v are the whole number nearest to sum / 2, halves up
IsMeanOfTwo(v, sum) ==
    /\ v % 100 = 0
    /\ 2 * v - 100 <= sum
    /\ sum < 2 * v + 100

\* C4: the aggregate of two or more months with pairwise disjoint dates has
\* the totalViewersPerHour, averageHourlyViewers, maxViewersPerHour, peakHour
\* and totalViewers that the single-month aggregation gives for the union of
\* their days; for two months of one day each, with a_h and b_h viewers in
\* hour h, totalViewersPerHour[h] = a_h + b_h and averageHourlyViewers[h] =
\* round((a_h + b_h) / 2) for h in 0..23.
C4_AggregateOfDisjointMonths ==
    (combined # <<>> /\ Len(monthsData) >= 2 /\ DisjointDates(monthsData)) =>
        LET s == combined[1]
            scratch == SummaryOfDays(SortByDate(ConcatDays(monthsData)), s.monthYear)
        IN  /\ s.totalViewersPerHour = scratch.totalViewersPerHour
            /\ s.averageHourlyViewers = scratch.averageHourlyViewers
            /\ s.maxViewersPerHour = scratch.maxViewersPerHour
            /\ s.peakHour = scratch.peakHour
            /\ s.totalViewers = scratch.totalViewers
            /\ (Len(monthsData) = 2 /\ Len(monthsData[1].days) = 1
                    /\ Len(monthsData[2].days) = 1) =>
                   \A h \in 0..23 :
                       LET sum == monthsData[1].days[1].hourlyViewers[h]
                                      + monthsData[2].days[1].hourlyViewers[h]
                       IN  /\ s.totalViewersPerHour[h] = sum
                           /\ IsMeanOfTwo(s.averageHourlyViewers[h], sum)

\* two months of disjoint dates, three days in all, are on view: the 250
\* viewers of hour 20 average to 83 where the months' own averages are 75 and 100
C4_Witness ==
    /\ combined # <<>>
    /\ Len(monthsData) = 2
    /\ DisjointDates(monthsData)
    /\ Len(combined[1].days) = 3
    /\ monthsData[1].averageHourlyViewers[20] = 7500
    /\ monthsData[2].averageHourlyViewers[20] = 10000
    /\ combined[1].averageHourlyViewers[20] = 8300

---------------------------------------------------------------------------
(* Claims about the aggregate view, checked under Spec *)

\* the inputs that hold a day of the date
InputsWith(date) ==
    {m \in 1..Len(monthsData) :
        \E d \in 1..Len(monthsData[m].days) : monthsData[m].days[d].date = date}

\* the record of the date in input m
RecordIn(m, date) ==
    LET d == CHOOSE d \in 1..Len(monthsData[m].days) : monthsData[m].days[d].date = date
    IN  monthsData[m].days[d]

\* C13: in the aggregate of two or more summaries, a date that occurs in more
\* than one input occurs exactly once in the combined days, with the record
\* of the latest input, in iteration order, that holds it.
C13_LatestInputWins ==
    (combined # <<>> /\ Len(monthsData) >= 2) =>
        \A m \in 1..Len(monthsData) : \A d \in 1..Len(monthsData[m].days) :
            LET date == monthsData[m].days[d].date
                at == {k \in 1..Len(combined[1].days) : combined[1].days[k].date = date}
            IN  /\ Cardinality(at) = 1
                /\ \A k \in at :
                       combined[1].days[k] = RecordIn(Max(InputsWith(date)), date)

\* the first of December is in both months with different records, and the
\* aggregate holds it once, as the second month has it
C13_Witness ==
    /\ combined # <<>>
    /\ Len(monthsData) = 2
    /\ InputsWith(Date1) = {1, 2}
    /\ RecordIn(1, Date1) # RecordIn(2, Date1)
    /\ \E k \in 1..Len(combined[1].days) : combined[1].days[k] = RecordIn(2, Date1)

\* C14 as stated: the label of a combined summary is the first input's label
\* for one input and "<first label> - <last label>" for two or more inputs.
C14_LabelFirstDashLast ==
    combined # <<>> =>
        combined[1].monthYear =
            IF Len(monthsData) = 1 THEN monthsData[1].monthYear
            ELSE monthsData[1].monthYear \o <<" - ">>
                     \o monthsData[Len(monthsData)].monthYear

\* C14, amended: the label of a combined summary is the first input's label
\* for one input and "Samenvatting (<first label> - <last label>)" for two or
\* more inputs.
C14_LabelSamenvatting ==
    combined # <<>> =>
        combined[1].monthYear =
            IF Len(monthsData) = 1 THEN monthsData[1].monthYear
            ELSE <<"Samenvatting (">> \o monthsData[1].monthYear \o <<" - ">>
                     \o monthsData[Len(monthsData)].monthYear \o <<")">>

\* November and December are on view as "Samenvatting (November 2024 - December 2024)"
C14_Witness ==
    /\ combined # <<>>
    /\ Len(monthsData) = 2
    /\ combined[1].monthYear =
           <<"Samenvatting (", "November", " ", "2024", " - ", "December", " ", "2024", ")">>

---------------------------------------------------------------------------
(* SpecCopy: the session of Spec, and a client that changes a day record   *)
(* of the aggregate on view                                                *)

\* <<m, d>>: the day record months[m].days[d] that allDaysMap.set(day.date,
\* {...day}) copied last for the date; the copy is a new object whose
\* hourlyViewers and hourlyPercentages are the arrays of that record
CopiedFrom(months, date) ==
    LET m == Max({x \in 1..Len(months) :
                     \E d \in 1..Len(months[x].days) : months[x].days[d].date = date})
    IN  <<m, CHOOSE d \in 1..Len(months[m].days) : months[m].days[d].date = date>>

\* the stored months after hourlyViewers[hour] of day k of the aggregate was
\* assigned: one input gives the input itself as aggregate, more inputs give
\* records that share their arrays with the records they were copied from
MonthsAfterHourChange(months, shown, k, hour, viewers) ==
    IF Len(months) = 1
    THEN <<[shown EXCEPT !.days[k].hourlyViewers[hour] = viewers]>>
    ELSE LET from == CopiedFrom(months, shown.days[k].date)
         IN  [months EXCEPT ![from[1]].days[from[2]].hourlyViewers[hour] = viewers]

\* the stored months after totalViewers of day k of the aggregate was assigned
MonthsAfterFieldChange(months, shown, k, viewers) ==
    IF Len(months) = 1
    THEN <<[shown EXCEPT !.days[k].totalViewers = viewers]>>
    ELSE months

ChangedHours == {5, 20}
ChangedViewers == {77700}

\* combined.days[k].hourlyViewers[hour] = viewers
ChangeHourlyViewers ==
    /\ pc = "session"
    /\ combined # <<>>
    /\ \E k \in 1..Len(combined[1].days), hour \in ChangedHours, viewers \in ChangedViewers :
          /\ combined' = [combined EXCEPT ![1].days[k].hourlyViewers[hour] = viewers]
          /\ monthsData' = MonthsAfterHourChange(monthsData, combined[1], k, hour, viewers)
    /\ pc' = "changed"
    /\ UNCHANGED <<error, timeSlot, hourOut, rowVars, fileVars>>

\* combined.days[k].totalViewers = viewers
ChangeTotalViewers ==
    /\ pc = "session"
    /\ combined # <<>>
    /\ \E k \in 1..Len(combined[1].days), viewers \in ChangedViewers :
          /\ combined' = [combined EXCEPT ![1].days[k].totalViewers = viewers]
          /\ monthsData' = MonthsAfterFieldChange(monthsData, combined[1], k, viewers)
    /\ pc' = "changed"
    /\ UNCHANGED <<error, timeSlot, hourOut, rowVars, fileVars>>

NextCopy == Next \/ ChangeHourlyViewers \/ ChangeTotalViewers

SpecCopy == Init /\ [][NextCopy]_vars

\* C15: the aggregate shares no day-record state with its inputs: a change of
\* a field of a record of the combined days, or of an element of its
\* hourlyViewers, leaves the records of every input as they were.
C15_NoSharedState ==
    [][pc' = "changed" => monthsData' = monthsData]_vars

\* what does hold: with two or more inputs a change of a field of a combined
\* record itself leaves the inputs as they were
CopiedRecordsAreNew ==
    [][(pc' = "changed" /\ Len(monthsData) >= 2
            /\ \A k \in 1..Len(combined[1].days) :
                   combined'[1].days[k].hourlyViewers = combined[1].days[k].hourlyViewers)
          => monthsData' = monthsData]_vars

---------------------------------------------------------------------------
(* The programme schedule: parseScheduleCSV and calculateEndTimes          *)
(*                                                                         *)
(* A time "HH:MM" is [hour, minute]; both parts are always two digits, so  *)
(* the order of localeCompare is the order of <<hour, minute>>.  An        *)
(* optional field of a ProgramData is a field the record has or has not.   *)
(* The id of a programme (a random string) is left out.                    *)

\* p[f] in a condition: undefined and 0 are both false
FieldTruthy(p, f) == f \in DOMAIN p /\ p[f] # 0

\* p[f] || 0
OrZero(p, f) == IF f \in DOMAIN p THEN p[f] ELSE 0

\* p.f = v
SetField(p, f, v) == [x \in DOMAIN p \cup {f} |-> IF x = f THEN v ELSE p[x]]

\* a time cell "H,MM", "H.MM" or "H:MM" to HH:MM; hours from 24 on wrap
normalizeTimeFormat(timeCell) ==
    [hour |-> IF timeCell.hours >= 24 THEN timeCell.hours % 24 ELSE timeCell.hours,
     minute |-> timeCell.minutes]

\* a.localeCompare(b) of two HH:MM strings
CompareTimes(a, b) ==
    IF a.hour # b.hour THEN (IF a.hour < b.hour THEN -1 ELSE 1)
    ELSE IF a.minute # b.minute THEN (IF a.minute < b.minute THEN -1 ELSE 1)
    ELSE 0

\* the week number declarations of the sheet: the one of the first five
\* lines (0 for none), then those of the body, each listed once
RECURSIVE BodyWeeks(_, _)
BodyWeeks(weeks, body) ==
    IF body = <<>> THEN weeks
    ELSE LET line == Head(body)
         IN  BodyWeeks(IF "week" \in DOMAIN line /\ \A k \in 1..Len(weeks) : weeks[k] # line.week
                       THEN Append(weeks, line.week) ELSE weeks,
                       Tail(body))

WeeksOf(sheet) ==
    BodyWeeks(IF sheet.weekNumber # 0 THEN <<sheet.weekNumber>> ELSE <<>>, sheet.body)

\* the week of the time row at body line r: with more than one week declared
\* the closest declaration above the row, else result.weekNumber
currentWeek(sheet, r) ==
    IF Len(WeeksOf(sheet)) > 1
    THEN LET above == {w \in 1..r : "week" \in DOMAIN sheet.body[w]}
         IN  IF above # {} THEN sheet.body[Max(above)].week ELSE sheet.weekNumber
    ELSE sheet.weekNumber

\* the cell of a day column holds no programme
Skipped(cell) == cell.title = "x"

\* the ProgramData made of a cell of the time row at body line r
ProgramOf(sheet, r, date, cell, programs) ==
    LET time == normalizeTimeFormat(sheet.body[r].time)
        week == currentWeek(sheet, r)
        existing == {k \in 1..Len(programs) :
                        programs[k].startTime = time /\ programs[k].week = week}
        program == [title |-> cell.title, startTime |-> time, day |-> date, week |-> week]
        timed == IF "duration" \in DOMAIN cell
                 THEN SetField(program, "duration", cell.duration) ELSE program
    IN  IF existing # {}
        THEN SetField(SetField(timed, "sequence", Cardinality(existing) + 1), "notes",
                      <<[at |-> time, week |-> week]>>)
        ELSE timed

\* result.days after the body lines from r on were read
RECURSIVE ReadLines(_, _, _)
ReadLines(sheet, days, r) ==
    IF r > Len(sheet.body) THEN days
    ELSE LET line == sheet.body[r]
             read == [c \in 1..Len(days) |->
                        IF "week" \in DOMAIN line \/ Skipped(line.cells[c]) THEN days[c]
                        ELSE [days[c] EXCEPT !.programs =
                                 Append(@, ProgramOf(sheet, r, days[c].date, line.cells[c], @))]]
         IN  ReadLines(sheet, read, r + 1)

\* the programmes with sequence numbers for those that share week and time
AssignSequence(programs) ==
    [k \in 1..Len(programs) |->
        LET p == programs[k]
            slot == {m \in 1..Len(programs) :
                        /\ OrZero(programs[m], "week") = OrZero(p, "week")
                        /\ programs[m].startTime = p.startTime}
            index == Cardinality({m \in slot : m < k})
            notes == IF "notes" \in DOMAIN p THEN p.notes ELSE <<>>
        IN  IF Cardinality(slot) > 1
            THEN SetField(SetField(p, "sequence", index + 1), "notes",
                          Append(notes, [index |-> index + 1, of |-> Cardinality(slot)]))
            ELSE p]

\* the comparator of programs.sort: week, then start time, then sequence
ComparePrograms(a, b) ==
    IF OrZero(a, "week") # OrZero(b, "week") THEN OrZero(a, "week") - OrZero(b, "week")
    ELSE IF CompareTimes(a.startTime, b.startTime) # 0 THEN CompareTimes(a.startTime, b.startTime)
    ELSE OrZero(a, "sequence") - OrZero(b, "sequence")

\* programs.sort(...), a stable sort
RECURSIVE SortPrograms(_)
SortPrograms(programs) ==
    IF Len(programs) <= 1 THEN programs
    ELSE LET sorted == SortPrograms(SubSeq(programs, 1, Len(programs) - 1))
             last == programs[Len(programs)]
             keep == {k \in 0..Len(sorted) :
                         \A m \in (k + 1)..Len(sorted) : ComparePrograms(sorted[m], last) > 0}
             at == CHOOSE k \in keep : \A m \in keep : k <= m
         IN  SubSeq(sorted, 1, at) \o <<last>> \o SubSeq(sorted, at + 1, Len(sorted))

\* start + 15 minutes, as computed for a programme of a shared time slot
EndOfSlotShare(start) ==
    LET endMinute == start.minute + 15
    IN  IF endMinute >= 60
        THEN [hour |-> (start.hour + endMinute \div 60) % 24, minute |-> endMinute % 60]
        ELSE [hour |-> start.hour, minute |-> endMinute]

DurationBetweenNoRollover(start, end) ==
    (end.hour - start.hour) * 60 + (end.minute - start.minute)

\* the minutes from start to end, a day later when end is before start
DurationBetween(start, end) ==
    LET durationMinutes == (end.hour - start.hour) * 60 + (end.minute - start.minute)
    IN  IF durationMinutes < 0 THEN durationMinutes + 24 * 60 ELSE durationMinutes

\* programs[i] after the loop body, programs[i + 1] being next
WithEndFromNext(current, next) ==
    IF /\ FieldTruthy(current, "sequence")
       /\ current.startTime = next.startTime
       /\ "sequence" \in DOMAIN next /\ current.sequence + 1 = next.sequence
       /\ current.week = next.week
    THEN IF ~FieldTruthy(current, "duration")
         THEN SetField(SetField(current, "duration", 15), "endTime",
                       EndOfSlotShare(current.startTime))
         ELSE current
    ELSE LET ended == SetField(current, "endTime", next.startTime)
         IN  IF ~FieldTruthy(current, "duration")
             THEN SetField(ended, "duration", DurationBetween(current.startTime, next.startTime))
             ELSE ended

\* start + duration minutes, as computed for the last programme of a day
EndAfterNoWrap(start, duration) ==
    LET endMinute == start.minute + duration
    IN  [hour |-> start.hour + endMinute \div 60, minute |-> endMinute % 60]

EndAfter(start, duration) ==
    LET endMinute == start.minute + duration
    IN  [hour |-> (start.hour + endMinute \div 60) % 24, minute |-> endMinute % 60]

\* the last programme of a day after calculateEndTimes
WithEndOfLast(lastProgram) ==
    IF FieldTruthy(lastProgram, "duration") /\ "endTime" \notin DOMAIN lastProgram
    THEN SetField(lastProgram, "endTime", EndAfter(lastProgram.startTime, lastProgram.duration))
    ELSE IF ~FieldTruthy(lastProgram, "duration") /\ "endTime" \notin DOMAIN lastProgram
    THEN SetField(SetField(lastProgram, "duration", 60), "endTime",
                  [hour |-> (lastProgram.startTime.hour + 1) % 24,
                   minute |-> lastProgram.startTime.minute])
    ELSE lastProgram

\* the end times of the sorted programmes of a day
EndTimesOf(sorted) ==
    [k \in 1..Len(sorted) |->
        IF k < Len(sorted) THEN WithEndFromNext(sorted[k], sorted[k + 1])
        ELSE WithEndOfLast(sorted[k])]

\* calculateEndTimes, for the programmes of one day
calculateEndTimes(programs) == EndTimesOf(SortPrograms(AssignSequence(programs)))

\* the ScheduleData parseScheduleCSV resolves with
parseScheduleCSV(sheet) ==
    LET read == ReadLines(sheet, [c \in 1..Len(sheet.dates) |->
                                     [date |-> sheet.dates[c], programs |-> <<>>]], 1)
    IN  [weekNumber |-> sheet.weekNumber,
         year |-> sheet.year,
         weeks |-> WeeksOf(sheet),
         days |-> [c \in 1..Len(read) |->
                     [date |-> read[c].date, programs |-> calculateEndTimes(read[c].programs)]]]

---------------------------------------------------------------------------
(* SpecSchedule: parseScheduleCSV applied to the sheets of up to MaxLines  *)
(* lines below the dates row                                               *)

\* a line that declares a week number
WeekLine(week) == [week |-> week]

\* a time row: the time cell and the cells of the day columns
TimeRow(hours, minutes, cells) == [time |-> [hours |-> hours, minutes |-> minutes], cells |-> cells]

\* cells: a title, a title with "(minutes)", and the "x" of an empty slot
Titled(title) == [title |-> title]
TitledFor(title, minutes) == [title |-> title, duration |-> minutes]
NoProgram == Titled("x")

BodyLines ==
    {WeekLine(2),
     TimeRow(20, 0, <<Titled("Journaal"), TitledFor("Film", 90)>>),
     TimeRow(20, 30, <<TitledFor("Sport", 25), NoProgram>>),
     TimeRow(21, 15, <<Titled("Talkshow"), Titled("Talkshow")>>),
     TimeRow(23, 30, <<TitledFor("Laat", 45), NoProgram>>),
     TimeRow(25, 0, <<Titled("Nacht"), NoProgram>>)}

\* the sheets: week 1 or no week in the first lines, two day columns
Sheets ==
    {[weekNumber |-> w, year |-> 2024, dates |-> <<Date1, Date3>>, body |-> b] :
        w \in {0, 1}, b \in RowSeqs(BodyLines, MaxLines)}

\* the viewer data the merge functions are given
ViewerNovember ==
    processViewerData(<<HeaderNamed, ViewerRow(Date2, Slot22, 20000, 5000),
                        ViewerRow(Date3, Slot20, 20000, 50)>>, LabelNovember).summary[1]

ViewerDecember ==
    processViewerData(<<HeaderNamed, ViewerRow(Date1, Slot27, 20000, 5000)>>,
                      LabelDecember).summary[1]

ViewerInputs == {<<ViewerNovember>>, <<ViewerNovember, ViewerDecember>>}

InitSchedule ==
    /\ pc = "sheet"
    /\ lines \in {<<sheet>> : sheet \in Sheets}
    /\ scheduleData = <<>>
    /\ localStorage = <<>> /\ programData = <<>>
    /\ viewerData \in ViewerInputs
    /\ mergedData = <<>>
    /\ NoBatch
    /\ jsonData = <<>>
    /\ result = <<>> /\ error = <<>>
    /\ timeSlot = <<>> /\ hourOut = NOT_FOUND
    /\ header = <<>> /\ i = 0 /\ row = <<>> /\ daysMap = <<>> /\ replaced = <<>>
    /\ monthsData = <<>> /\ combined = <<>>

\* parseScheduleCSV(file) resolves
ParseSchedule ==
    /\ pc = "sheet"
    /\ scheduleData' = <<parseScheduleCSV(lines[1])>>
    /\ pc' = "parsed"
    /\ UNCHANGED <<lines, jsonData, timeSlot, hourOut, rowVars, sessionVars,
                   storeVars, mergeVars, batchVars>>

\* a property key that is an array index ("0", "7", "12"): such keys come
\* first in the property order of an object, in ascending order
IsIndexKey(key) ==
    /\ Len(key) > 0
    /\ \A k \in 1..Len(key) : IsDigit(key[k])
    /\ Len(key) > 1 => key[1] # "0"

\* the entries with index keys, in ascending order of the index
RECURSIVE IndexEntries(_)
IndexEntries(entries) ==
    LET at == {k \in 1..Len(entries) : IsIndexKey(entries[k].date)}
    IN  IF at = {} THEN <<>>
        ELSE LET least == CHOOSE k \in at :
                              \A m \in at : parseInt(entries[k].date) <= parseInt(entries[m].date)
             IN  <<entries[least]>>
                     \o IndexEntries(SubSeq(entries, 1, least - 1)
                                         \o SubSeq(entries, least + 1, Len(entries)))

\* the entries whose keys are not array indices, in the order they were set
RECURSIVE NamedEntries(_)
NamedEntries(entries) ==
    IF entries = <<>> THEN <<>>
    ELSE (IF IsIndexKey(Head(entries).date) THEN <<>> ELSE <<Head(entries)>>)
             \o NamedEntries(Tail(entries))

RECURSIVE Reversed(_)
Reversed(entries) ==
    IF entries = <<>> THEN <<>> ELSE Append(Reversed(Tail(entries)), Head(entries))

ObjectFromEntriesReversed(entries) == Reversed(entries)

\* the properties, in property order, of the object the reduce of
\* saveProgramData builds from the entries of data.days
ObjectFromEntries(entries) == IndexEntries(entries) \o NamedEntries(entries)

\* JSON.stringify(serializable): weekNumber, year and the days object; a
\* ProgramData holds strings and numbers, which the text gives back as they
\* are, and a field that is not set is not written
Serialized(data) ==
    [weekNumber |-> data.weekNumber,
     year |-> data.year,
     days |-> ObjectFromEntries(data.days)]

\* the ScheduleData loadProgramData builds from the stored text: the Map is
\* filled in the order of Object.entries(parsed.days)
Deserialized(text) ==
    [weekNumber |-> text.weekNumber,
     year |-> text.year,
     days |-> [c \in 1..Len(text.days) |->
                 [date |-> text.days[c].date, programs |-> text.days[c].programs]]]

\* saveProgramData(scheduleData); an exception of setItem is caught
SaveProgramData ==
    /\ pc = "parsed"
    /\ \E stored \in BOOLEAN :
          localStorage' = IF stored THEN <<Serialized(scheduleData[1])>> ELSE localStorage
    /\ pc' = "saved"
    /\ UNCHANGED <<lines, scheduleData, programData, mergeVars,
                   jsonData, timeSlot, hourOut, rowVars, sessionVars, batchVars>>

\* loadProgramData()
LoadProgramData ==
    /\ pc = "saved"
    /\ programData' = IF localStorage = <<>> THEN <<>> ELSE <<Deserialized(localStorage[1])>>
    /\ pc' = "loaded"
    /\ UNCHANGED <<lines, scheduleData, localStorage, mergeVars,
                   jsonData, timeSlot, hourOut, rowVars, sessionVars, batchVars>>

\* null in a JSON text
Null == -2000000000

\* JSON.parse(JSON.stringify(n)) of a number: NaN becomes null
JsonNumber(n) == IF n = NaN THEN Null ELSE n

\* JSON.parse(JSON.stringify(arr)) of an array of numbers: a hole becomes null
JsonArray(arr) ==
    [k \in 0..(ArrayLength(arr) - 1) |-> IF k \in DOMAIN arr THEN JsonNumber(arr[k]) ELSE Null]

JsonDay(day) ==
    [day EXCEPT !.totalViewers = JsonNumber(@),
                !.hourlyViewers = JsonArray(@),
                !.hourlyPercentages = JsonArray(@)]

\* JSON.parse(JSON.stringify(viewerData)), the deep copy of the months
JsonCopy(months) ==
    [m \in 1..Len(months) |->
        [months[m] EXCEPT !.days = [d \in 1..Len(@) |-> JsonDay(@[d])],
                          !.averageHourlyViewers = JsonArray(@),
                          !.maxViewersPerHour = JsonArray(@),
                          !.totalViewersPerHour = JsonArray(@),
                          !.peakHour = JsonNumber(@),
                          !.totalViewers = JsonNumber(@)]]

\* programData.days.has(date)
HasDate(days, date) == \E c \in 1..Len(days) : days[c].date = date

\* programData.days.get(date)
ProgramsOn(days, date) == days[CHOOSE c \in 1..Len(days) : days[c].date = date].programs

WithProgramsAlways(day, days) ==
    SetField(day, "programs", IF HasDate(days, day.date) THEN ProgramsOn(days, day.date) ELSE <<>>)

\* a day of the copy after the loop body of mergeViewerAndProgramData
WithProgramsOf(day, days) ==
    IF HasDate(days, day.date) THEN SetField(day, "programs", ProgramsOn(days, day.date))
    ELSE day

\* what mergeViewerAndProgramData returns for a schedule
mergeViewerAndProgramData(months, schedule) ==
    LET copy == JsonCopy(months)
    IN  [m \in 1..Len(copy) |->
            [copy[m] EXCEPT !.days = [d \in 1..Len(@) |-> WithProgramsOf(@[d], schedule.days)]]]

\* the day objects of the viewer Map after scheduleData.days.forEach: the
\* copy made by new Map(viewerData) holds the day objects of viewerData
RECURSIVE mergeScheduleWithViewerData(_, _)
mergeScheduleWithViewerData(dayObjects, days) ==
    IF days = <<>> THEN dayObjects
    ELSE mergeScheduleWithViewerData(
             [d \in 1..Len(dayObjects) |->
                 IF dayObjects[d].date = Head(days).date
                 THEN SetField(dayObjects[d], "programs", Head(days).programs)
                 ELSE dayObjects[d]],
             Tail(days))

\* mergeViewerAndProgramData(viewerData, programData), programData being
\* the parsed schedule or null
MergeViewerAndProgramData ==
    /\ pc = "parsed"
    /\ \E given \in {<<>>, scheduleData} :
          /\ mergedData' = IF given = <<>> THEN <<viewerData>>
                           ELSE <<mergeViewerAndProgramData(viewerData, given[1])>>
          /\ pc' = IF given = <<>> THEN "notMerged" ELSE "mergedCopy"
    /\ UNCHANGED <<viewerData, lines, scheduleData, storeVars,
                   jsonData, timeSlot, hourOut, rowVars, sessionVars, batchVars>>

\* mergeScheduleWithViewerData(viewerData, scheduleData), viewerData being
\* the Map of the days of the first month by date
MergeScheduleWithViewerData ==
    /\ pc = "parsed"
    /\ viewerData' = [viewerData EXCEPT ![1].days =
                         mergeScheduleWithViewerData(@, scheduleData[1].days)]
    /\ mergedData' = <<viewerData'[1].days>>
    /\ pc' = "mergedMap"
    /\ UNCHANGED <<lines, scheduleData, storeVars,
                   jsonData, timeSlot, hourOut, rowVars, sessionVars, batchVars>>

NextSchedule ==
    \/ ParseSchedule
    \/ SaveProgramData
    \/ LoadProgramData
    \/ MergeViewerAndProgramData
    \/ MergeScheduleWithViewerData

SpecSchedule == InitSchedule /\ [][NextSchedule]_vars

---------------------------------------------------------------------------
(* Claims about the parsed schedule (SpecSchedule) *)

\* the programmes of day column c of the parsed schedule
ProgramsOfDay(c) == scheduleData[1].days[c].programs

DistinctStarts(programs) ==
    \A k, m \in 1..Len(programs) : k # m => programs[k].startTime # programs[m].startTime

\* the time a number of minutes after a time, on the 24 hour clock
MinutesAfter(time, minutes) ==
    LET total == (time.hour * 60 + time.minute + minutes) % (24 * 60)
    IN  [hour |-> total \div 60, minute |-> total % 60]

\* the cell of day column c the programme started at a time was made of
CellStartedAt(c, time) ==
    LET body == lines[1].body
        r == CHOOSE r \in 1..Len(body) :
                 /\ "time" \in DOMAIN body[r]
                 /\ normalizeTimeFormat(body[r].time) = time
                 /\ ~Skipped(body[r].cells[c])
    IN  body[r].cells[c]

\* C16: on a day whose entries have pairwise distinct start times every
\* entry but the last ends when the next entry of the list starts, and the
\* last ends its duration after its start when its cell gave a duration,
\* else 60 minutes after its start, on the 24 hour clock.
C16_EndTimesBackFilled ==
    pc = "parsed" =>
        \A c \in 1..Len(scheduleData[1].days) :
            LET programs == ProgramsOfDay(c)
                n == Len(programs)
            IN  (n > 0 /\ DistinctStarts(programs)) =>
                    /\ \A k \in 1..(n - 1) : programs[k].endTime = programs[k + 1].startTime
                    /\ LET cell == CellStartedAt(c, programs[n].startTime)
                       IN  programs[n].endTime =
                               MinutesAfter(programs[n].startTime,
                                            IF FieldTruthy(cell, "duration") THEN cell.duration ELSE 60)

HHMM(hour, minute) == [hour |-> hour, minute |-> minute]

\* starts 20:00, 20:30, 21:15 have got the ends 20:30, 21:15, 22:15
C16_Witness ==
    /\ pc = "parsed"
    /\ Len(ProgramsOfDay(1)) = 3
    /\ [k \in 1..3 |-> ProgramsOfDay(1)[k].startTime] = <<HHMM(20, 0), HHMM(20, 30), HHMM(21, 15)>>
    /\ [k \in 1..3 |-> ProgramsOfDay(1)[k].endTime] = <<HHMM(20, 30), HHMM(21, 15), HHMM(22, 15)>>

\* the last entry of a day ends after midnight: 23:30 and 45 minutes give 00:15
LastEndsAfterMidnight ==
    /\ pc = "parsed"
    /\ Len(ProgramsOfDay(1)) = 2
    /\ DistinctStarts(ProgramsOfDay(1))
    /\ ProgramsOfDay(1)[2].startTime = HHMM(23, 30)
    /\ ProgramsOfDay(1)[2].endTime = HHMM(0, 15)

\* C17: once parseScheduleCSV has resolved, the programmes of every day are
\* listed in non-decreasing order of startTime, and those that share a
\* startTime in order of sequence, also when the sheet declares more than
\* one week.
C17_OrderedByStartTime ==
    pc = "parsed" =>
        \A c \in 1..Len(scheduleData[1].days) :
            \A k \in 1..(Len(ProgramsOfDay(c)) - 1) :
                LET a == ProgramsOfDay(c)[k]
                    b == ProgramsOfDay(c)[k + 1]
                IN  /\ CompareTimes(a.startTime, b.startTime) <= 0
                    /\ a.startTime = b.startTime => OrZero(a, "sequence") <= OrZero(b, "sequence")

\* what does hold: the list is ordered by week first, and by startTime and
\* sequence among the programmes of one week
OrderedByWeekThenStart ==
    pc = "parsed" =>
        \A c \in 1..Len(scheduleData[1].days) :
            \A k \in 1..(Len(ProgramsOfDay(c)) - 1) :
                ComparePrograms(ProgramsOfDay(c)[k], ProgramsOfDay(c)[k + 1]) <= 0

\* a sheet of one week, with two programmes that share a start time, parsed
OneWeekParsed ==
    /\ pc = "parsed"
    /\ Len(scheduleData[1].weeks) <= 1
    /\ \E k \in 1..(Len(ProgramsOfDay(1)) - 1) :
           /\ ProgramsOfDay(1)[k].startTime = ProgramsOfDay(1)[k + 1].startTime
           /\ ProgramsOfDay(1)[k].sequence = 1 /\ ProgramsOfDay(1)[k + 1].sequence = 2

\* the order of startTime holds for the sheets that declare at most one week
OrderedByStartWithinOneWeek ==
    (pc = "parsed" /\ Len(scheduleData[1].weeks) <= 1) => C17_OrderedByStartTime

NothingStored == (pc = "loaded" /\ localStorage = <<>>) => programData = <<>>

\* the day records a merge function returned
MergedDays ==
    IF pc = "mergedMap" THEN mergedData[1]
    ELSE ConcatDays(mergedData[1])

\* the schedule mapping the merge function was given
GivenDays == IF pc = "notMerged" THEN <<>> ELSE scheduleData[1].days

Merged == pc \in {"mergedCopy", "notMerged", "mergedMap"}

\* C19: a merge sets programs, to the entry list of the date, on every day
\* record whose date is a key of the schedule mapping, and leaves programs
\* unset on every other record.
C19_ProgramsAttachedByDate ==
    Merged =>
        \A d \in 1..Len(MergedDays) :
            LET day == MergedDays[d]
            IN  IF HasDate(GivenDays, day.date)
                THEN "programs" \in DOMAIN day /\ day.programs = ProgramsOn(GivenDays, day.date)
                ELSE "programs" \notin DOMAIN day

\* mergeViewerAndProgramData returned a record with the programmes of its
\* date beside a record of a date the schedule has not
C19_Witness ==
    /\ pc = "mergedCopy"
    /\ \E d, e \in 1..Len(MergedDays) :
           /\ "programs" \in DOMAIN MergedDays[d] /\ Len(MergedDays[d].programs) >= 2
           /\ "programs" \notin DOMAIN MergedDays[e]

\* the same for the Map mergeScheduleWithViewerData returned
AttachedInMap ==
    /\ pc = "mergedMap"
    /\ \E d, e \in 1..Len(MergedDays) :
           /\ "programs" \in DOMAIN MergedDays[d] /\ Len(MergedDays[d].programs) >= 2
           /\ "programs" \notin DOMAIN MergedDays[e]

\* C20: the merge functions are pure: neither changes a day record of the
\* viewer data it was given; only what it returns carries the programmes.
C20_MergeIsPure ==
    [][Merged' => viewerData' = viewerData]_vars

\* what does hold: mergeViewerAndProgramData leaves its argument as it was
CopyMergeIsPure ==
    [][pc' \in {"mergedCopy", "notMerged"} => viewerData' = viewerData]_vars

---------------------------------------------------------------------------
(* Claims about durations and end times after the back-fill (SpecSchedule) *)

\* the cell of day column c the programme of a week started at a time was
\* made of, for a programme that shares its week and time with no other
CellOfEntry(c, entry) ==
    LET body == lines[1].body
        r == CHOOSE r \in 1..Len(body) :
                 /\ "time" \in DOMAIN body[r]
                 /\ normalizeTimeFormat(body[r].time) = entry.startTime
                 /\ currentWeek(lines[1], r) = entry.week
                 /\ ~Skipped(body[r].cells[c])
    IN  body[r].cells[c]

MinutesOfDay(time) == time.hour * 60 + time.minute

\* the entries of day c that are not the last, share their slot with no
\* other entry, and had no duration in their cell
BackFilledEntries(c) ==
    {k \in 1..(Len(ProgramsOfDay(c)) - 1) :
        /\ "sequence" \notin DOMAIN ProgramsOfDay(c)[k]
        /\ ~FieldTruthy(CellOfEntry(c, ProgramsOfDay(c)[k]), "duration")}

\* C24: an entry that is not the last of its day, is no same-slot sibling
\* and had no duration gets the minutes from startTime to endTime as its
\* duration, 1440 more when that difference is negative: the duration is in
\* 0..1439 and startTime + duration is endTime modulo 24 hours.
C24_BackFilledDuration ==
    scheduleData # <<>> =>
        \A c \in 1..Len(scheduleData[1].days) :
            \A k \in BackFilledEntries(c) :
                LET entry == ProgramsOfDay(c)[k]
                    difference == MinutesOfDay(entry.endTime) - MinutesOfDay(entry.startTime)
                IN  /\ entry.duration = IF difference < 0 THEN difference + 1440 ELSE difference
                    /\ entry.duration \in 0..1439
                    /\ (MinutesOfDay(entry.startTime) + entry.duration) % 1440
                           = MinutesOfDay(entry.endTime)

\* an entry that starts at 21:15 and ends at 20:00 has got 1365 minutes
C24_Witness ==
    /\ scheduleData # <<>>
    /\ \E k \in BackFilledEntries(1) :
           /\ ProgramsOfDay(1)[k].startTime = HHMM(21, 15)
           /\ ProgramsOfDay(1)[k].endTime = HHMM(20, 0)
           /\ ProgramsOfDay(1)[k].duration = 1365

\* C29: after the back-fill every entry of every day has an endTime, also
\* a same-slot sibling whose title gave a duration.
C29_EveryEntryHasEndTime ==
    scheduleData # <<>> =>
        \A c \in 1..Len(scheduleData[1].days) :
            \A k \in 1..Len(ProgramsOfDay(c)) : "endTime" \in DOMAIN ProgramsOfDay(c)[k]

\* what does hold: only a same-slot sibling that has a duration and is
\* followed by the next sibling of its slot is left without an endTime
EndTimeMissingOnlyForSiblings ==
    scheduleData # <<>> =>
        \A c \in 1..Len(scheduleData[1].days) :
            \A k \in 1..Len(ProgramsOfDay(c)) :
                "endTime" \notin DOMAIN ProgramsOfDay(c)[k] =>
                    /\ k < Len(ProgramsOfDay(c))
                    /\ FieldTruthy(ProgramsOfDay(c)[k], "sequence")
                    /\ FieldTruthy(ProgramsOfDay(c)[k], "duration")
                    /\ ProgramsOfDay(c)[k + 1].startTime = ProgramsOfDay(c)[k].startTime

---------------------------------------------------------------------------
(* Claims about the stored months (Spec) *)

StoredLabels(months) == {months[k].monthYear : k \in 1..Len(months)}

StoredSummaries(months) == {months[k] : k \in 1..Len(months)}

\* the summaries of the files whose upload stores a month
StorableSummaries ==
    {Processed[f].summary[1] :
        f \in {g \in Files : ~Processed[g].threw /\ Len(Processed[g].summary[1].days) > 0}}

\* C30: the stored months hold at most one summary per label: an upload
\* whose label is stored replaces the summary of that label by the new one,
\* any other upload adds its summary, and no other stored summary changes.
C30_OneSummaryPerLabel ==
    [][(monthsData' # monthsData /\ monthsData' # <<>>) =>
          /\ \A k, m \in 1..Len(monthsData') :
                 k # m => monthsData'[k].monthYear # monthsData'[m].monthYear
          /\ \E new \in StorableSummaries :
                 /\ new \in StoredSummaries(monthsData')
                 /\ StoredSummaries(monthsData') \ {new}
                        = {old \in StoredSummaries(monthsData) : old.monthYear # new.monthYear}
                 /\ Len(monthsData') = IF new.monthYear \in StoredLabels(monthsData)
                                       THEN Len(monthsData) ELSE Len(monthsData) + 1]_vars

\* two months are stored, each under its label
C30_Witness ==
    /\ pc = "session"
    /\ Len(monthsData) = 2
    /\ monthsData[1].monthYear = LabelNovember
    /\ monthsData[2].monthYear = LabelDecember

---------------------------------------------------------------------------
(* SpecBatch: handleFileChange over batches of up to MaxFiles files        *)

\* a file that is neither a CSV nor an Excel file
OtherFile == [name |-> "notities.txt", kind |-> "other"]

\* schedule sheets, with and without a row of day names
CsvFile == [name |-> "week49.csv", kind |-> "csv", dayHeaders |-> TRUE]
CsvNoDaysFile == [name |-> "leeg.csv", kind |-> "csv", dayHeaders |-> FALSE]

ExcelFile(name, readable, monthYear, data) ==
    [name |-> name, kind |-> "excel", readable |-> readable, monthYear |-> monthYear, data |-> data]

NovemberFile ==
    ExcelFile("november 2024.xlsx", TRUE, LabelNovember,
              <<HeaderNamed, ViewerRow(Date3, Slot20, 20000, 50)>>)
DecemberFile ==
    ExcelFile("december 2024.xlsx", TRUE, LabelDecember,
              <<HeaderNamed, ViewerRow(Date1, Slot20, 20000, 50)>>)
NoHeaderFile ==
    ExcelFile("export.xlsx", TRUE, LabelDecember, <<ViewerRow(Date1, Slot20, 20000, 50)>>)
ZeroDaysFile ==
    ExcelFile("december 2024 (1).xlsx", TRUE, LabelDecember,
              <<HeaderNamed, ViewerRow(Date1, Slot20, 0, 5000)>>)
UnreadableFile ==
    ExcelFile("november 2024 (1).xlsx", FALSE, LabelNovember,
              <<HeaderNamed, ViewerRow(Date3, Slot20, 20000, 50)>>)

ExcelFiles == {NovemberFile, DecemberFile, NoHeaderFile, ZeroDaysFile, UnreadableFile}

BatchFiles == {OtherFile, CsvFile, CsvNoDaysFile} \cup ExcelFiles

\* the non-empty batches of up to MaxFiles files
Batches == RowSeqs(BatchFiles, MaxFiles) \ {<<>>}

\* processViewerData for the sheet of every Excel file
ProcessedSheets == [f \in ExcelFiles |-> processViewerData(f.data, f.monthYear)]

UnsupportedMessage(name) == <<"Bestand", name, "is geen ondersteund bestandstype">>
ScheduleErrorMessage(name, message) ==
    <<"Fout bij verwerken van programmering in", name, message>>
FileErrorMessage(name, message) == <<"Fout bij verwerken van bestand", name, message>>

\* what the loop body does with a CSV file: parseScheduleCSV rejects a sheet
\* without day names; for any other sheet onDataProcessed(...) returns
\* undefined, and existingData.map throws
ScheduleOutcome(file) ==
    [stored |-> <<>>,
     message |-> <<ScheduleErrorMessage(file.name,
                      IF file.dayHeaders THEN "Cannot read properties of undefined"
                      ELSE "Could not find day headers in CSV")>>,
     note |-> "FOUT bij verwerken van programmering"]

\* what the loop body does with an Excel file, processed being what
\* processViewerData makes of its sheet
ViewerOutcome(file, processed) ==
    IF ~file.readable
    THEN [stored |-> <<>>, message |-> <<FileErrorMessage(file.name, "Error reading file")>>,
          note |-> "FOUT"]
    ELSE IF processed.threw
    THEN [stored |-> <<>>,
          message |-> <<FileErrorMessage(file.name, NoHeaderMessage[1])>>,
          note |-> "FOUT"]
    ELSE IF Len(processed.summary[1].days) = 0
    THEN [stored |-> <<>>, message |-> <<>>, note |-> "Geen geldige data gevonden"]
    ELSE [stored |-> processed.summary, message |-> <<>>, note |-> "Succesvol verwerkt"]

\* the outcome of the loop body for a file
FileOutcome(file) ==
    IF file.kind = "other"
    THEN [stored |-> <<>>, message |-> <<UnsupportedMessage(file.name)>>,
          note |-> "geen ondersteund bestandstype"]
    ELSE IF file.kind = "csv" THEN ScheduleOutcome(file)
    ELSE ViewerOutcome(file, ProcessedSheets[file])

MonthsAfterFileLost(months, outcome) ==
    IF outcome.stored # <<>> THEN handleDataProcessed(months, outcome.stored[1]) ELSE <<>>

\* the stored months after the loop body
MonthsAfterFile(months, outcome) ==
    IF outcome.stored # <<>> THEN handleDataProcessed(months, outcome.stored[1]) ELSE months

InitBatch ==
    /\ pc = "idle"
    /\ monthsData = <<>> /\ combined = <<>> /\ error = <<>>
    /\ NoBatch
    /\ NoSchedule
    /\ jsonData = <<>>
    /\ result = <<>>
    /\ timeSlot = <<>> /\ hourOut = NOT_FOUND
    /\ header = <<>> /\ i = 0 /\ row = <<>> /\ daysMap = <<>> /\ replaced = <<>>

\* handleFileChange up to the loop, for a selection of one or more files
StartBatch ==
    /\ pc \in {"idle", "done"}
    /\ \E batch \in Batches : files' = batch
    /\ fileIndex' = 0
    /\ isLoading' = TRUE
    /\ error' = <<>>
    /\ debugInfo' = <<<<"Verwerking gestart...">>>>
    /\ pc' = "batch"
    /\ UNCHANGED <<monthsData, combined, jsonData, scheduleVars, timeSlot, hourOut, rowVars>>

\* the outcome of a file taken into the uploader's state and the stored months
TakeOutcome(file, outcome) ==
    /\ monthsData' = MonthsAfterFile(monthsData, outcome)
    /\ error' = IF outcome.message # <<>> THEN outcome.message ELSE error
    /\ debugInfo' = Append(debugInfo, <<"Verwerken van bestand:", file.name, outcome.note>>)

\* one turn of the loop of handleFileChange
ProcessNextFile ==
    /\ pc = "batch"
    /\ fileIndex < Len(files)
    /\ TakeOutcome(files[fileIndex + 1], FileOutcome(files[fileIndex + 1]))
    /\ fileIndex' = fileIndex + 1
    /\ UNCHANGED <<pc, files, isLoading, combined, jsonData, scheduleVars,
                   timeSlot, hourOut, rowVars>>

\* handleFileChange after the loop
FinishBatch ==
    /\ pc = "batch"
    /\ fileIndex = Len(files)
    /\ isLoading' = FALSE
    /\ pc' = "done"
    /\ UNCHANGED <<files, fileIndex, debugInfo, sessionVars, jsonData, scheduleVars,
                   timeSlot, hourOut, rowVars>>

NextBatch == StartBatch \/ ProcessNextFile \/ FinishBatch

SpecBatch == InitBatch /\ [][NextBatch]_vars

---------------------------------------------------------------------------
(* Claims about batches (SpecBatch) *)

\* the files whose processing fails or gives no day
FailingFiles ==
    {OtherFile, CsvFile, CsvNoDaysFile, NoHeaderFile, ZeroDaysFile, UnreadableFile}

\* C21: a file of a batch whose processing fails or gives no day does not
\* stop the batch: the stored summaries are as before the file, every later
\* file is taken up and, when it holds days, stored, and the loading flag
\* is cleared after the last file.
C21_FailingFileKeepsBatchGoing ==
    /\ [][(pc = "batch" /\ fileIndex' = fileIndex + 1 /\ files[fileIndex'] \in FailingFiles) =>
              (monthsData' = monthsData /\ pc' = "batch" /\ isLoading')]_vars
    /\ [](pc = "done" =>
              /\ ~isLoading
              /\ Len(debugInfo) = Len(files) + 1
              /\ \A k \in 1..Len(files) :
                     /\ debugInfo[k + 1][2] = files[k].name
                     /\ files[k] \notin FailingFiles =>
                            files[k].monthYear \in StoredLabels(monthsData))

\* a batch of a file without header row and the November file is finished:
\* the error of the first is shown and the month of the second is stored
C21_Witness ==
    /\ pc = "done"
    /\ files = <<NoHeaderFile, NovemberFile>>
    /\ ~isLoading
    /\ error = <<FileErrorMessage(NoHeaderFile.name, NoHeaderMessage[1])>>
    /\ Len(monthsData) = 1 /\ monthsData[1].monthYear = LabelNovember

---------------------------------------------------------------------------
(* Claims about the dates of the day records (SpecRows) *)

\* DD-MM-YYYY: two digits, a dash, two digits, a dash, four digits
IsCanonicalDate(date) ==
    /\ Len(date) = 10
    /\ date[3] = "-" /\ date[6] = "-"
    /\ \A k \in {1, 2, 4, 5, 7, 8, 9, 10} : IsDigit(date[k])

\* C22: every day record processViewerData makes has a date of the form
\* DD-MM-YYYY, whether the date cell of its row was a serial number or a
\* text; a row whose date has no such form makes no record.
C22_DatesCanonical ==
    /\ \A d \in 1..Len(daysMap) : IsCanonicalDate(daysMap[d].date)
    /\ result # <<>> => \A d \in 1..Len(result[1].days) : IsCanonicalDate(result[1].days[d].date)

\* what does hold: the record of a row with a serial number has the date
\* in DD-MM-YYYY form, and the record of a row with a text has that text
DateOfSerialOrText ==
    (row # <<>> /\ header # <<>> /\ RowAccepted(header, row[1])) =>
        \E d \in 1..Len(daysMap) :
            /\ daysMap[d].date = dateStringOf(row[1])
            /\ CellAt(row[1], 0).t = "num" => IsCanonicalDate(daysMap[d].date)
            /\ CellAt(row[1], 0).t = "str" => daysMap[d].date = CellAt(row[1], 0).s

\* a row with a serial number has made the record of 01-12-2024
SerialDateRead ==
    /\ row # <<>> /\ CellAt(row[1], 0).t = "num"
    /\ \E d \in 1..Len(daysMap) : daysMap[d].date = Date1

\* C27: the totalViewers of a day record is that of the first accepted row
\* of its date and no later row changes it, so the returned days are the
\* records whose first row had a positive day total, whatever the day
\* totals of the later rows of the date.
C27_TotalOfFirstRow ==
    [][/\ Len(daysMap') >= Len(daysMap)
       /\ \A d \in 1..Len(daysMap) :
              /\ daysMap'[d].date = daysMap[d].date
              /\ daysMap'[d].totalViewers = daysMap[d].totalViewers
       /\ Len(daysMap') > Len(daysMap) =>
              /\ Len(daysMap') = Len(daysMap) + 1
              /\ daysMap'[Len(daysMap')].date = dateStringOf(row'[1])
              /\ daysMap'[Len(daysMap')].totalViewers = totalDailyViewersOf(header, row'[1])
       /\ result' # <<>> =>
              {result'[1].days[d].date : d \in 1..Len(result'[1].days)}
                  = {daysMap'[d].date : d \in {e \in 1..Len(daysMap') : daysMap'[e].totalViewers > 0}}
      ]_vars

\* the first row of 01-12-2024 had the day total 0, the second row of that
\* date a positive one: the date is not among the returned days
C27_Witness ==
    /\ pc = "returned"
    /\ i = 2
    /\ Len(daysMap) = 1
    /\ daysMap[1].date = Date1 /\ daysMap[1].totalViewers = 0
    /\ dateStringOf(row[1]) = Date1 /\ RowAccepted(header, row[1])
    /\ totalDailyViewersOf(header, row[1]) > 0
    /\ result[1].days = <<>>

---------------------------------------------------------------------------
(* The synthesized age groups of the day records *)

\* the audiences of one hour are nested: 13+ holds 50+, which holds 65+
Cumulative(hourData) ==
    /\ hourData.viewers13Plus >= hourData.viewers50Plus
    /\ hourData.viewers50Plus >= hourData.viewers65Plus

\* C25: in every day record and for every hour 0..23 the synthesized age
\* groups are cumulative: viewers13Plus >= viewers50Plus >= viewers65Plus.
C25_AgeGroupsCumulative ==
    \A d \in 1..Len(daysMap) :
        \A h \in 0..23 : Cumulative(daysMap[d].ageGroups[h])

\* what the code does guarantee: every record has 24 age-group slots, the
\* hours outside 2..5 are cumulative, and everywhere 50+ holds 65+
AgeGroupsCumulativeOutsideEarlyMorning ==
    \A d \in 1..Len(daysMap) :
        /\ DOMAIN daysMap[d].ageGroups = 0..23
        /\ \A h \in 0..23 :
               /\ h \notin 2..5 => Cumulative(daysMap[d].ageGroups[h])
               /\ daysMap[d].ageGroups[h].viewers50Plus
                      >= daysMap[d].ageGroups[h].viewers65Plus

\* an evening hour with viewers, split 45 / 35 / 20
EveningAgeGroupsWritten ==
    \E d \in 1..Len(daysMap) :
        /\ daysMap[d].hourlyViewers[20] = 10000
        /\ daysMap[d].ageGroups[20] =
               [viewers13Plus |-> 4500, viewers50Plus |-> 3500, viewers65Plus |-> 2000]

\* the distribution of hour h applied to the viewers of that hour
AgeGroupsExpected(h, viewers) ==
    IF viewers = 0 THEN ZeroAgeGroups ELSE AgeGroupsOf(h, viewers)

\* C26: after any sequence of rows, also several rows of one date and hour,
\* ageGroups[h] of every record is the distribution applied to the final
\* hourlyViewers[h], and all zero when hourlyViewers[h] is 0.
C26_AgeGroupsFollowHourlyViewers ==
    \A d \in 1..Len(daysMap) :
        \A h \in 0..23 :
            daysMap[d].ageGroups[h] = AgeGroupsExpected(h, daysMap[d].hourlyViewers[h])

\* what the code does guarantee: an hour that holds viewers has the age
\* groups of those viewers
AgeGroupsOfPositiveHours ==
    \A d \in 1..Len(daysMap) :
        \A h \in 0..23 :
            daysMap[d].hourlyViewers[h] > 0 =>
                daysMap[d].ageGroups[h] = AgeGroupsOf(h, daysMap[d].hourlyViewers[h])

\* an hour written twice with viewers: the age groups are those of the second row
AgeGroupsRewritten ==
    /\ i = 2
    /\ replaced = <<10000>>
    /\ \E d \in 1..Len(daysMap) :
           /\ daysMap[d].hourlyViewers[20] = 3000
           /\ daysMap[d].ageGroups[20] =
                  [viewers13Plus |-> 1400, viewers50Plus |-> 1100, viewers65Plus |-> 600]

---------------------------------------------------------------------------
(* The age groups of the combined summary *)

\* C28: the totalAgeGroups of a combined summary of two or more inputs is,
\* hour by hour and field by field, the sum of the ageGroups of the days of
\* the combined list, also when a date occurs in more than one input.
C28_TotalAgeGroupsOfCombinedDays ==
    (combined # <<>> /\ Len(monthsData) >= 2) =>
        combined[1].totalAgeGroups = monthTotalAgeGroups(combined[1].days)

\* what the code does guarantee: the sum over the combined days when no date
\* occurs in two inputs
TotalAgeGroupsOfDisjointMonths ==
    (combined # <<>> /\ Len(monthsData) >= 2 /\ DisjointDates(monthsData)) =>
        combined[1].totalAgeGroups = monthTotalAgeGroups(combined[1].days)

\* two months without a common date, combined, with age groups in hour 22
DisjointMonthsCombined ==
    /\ combined # <<>>
    /\ Len(monthsData) = 2
    /\ DisjointDates(monthsData)
    /\ Len(combined[1].days) >= 2
    /\ combined[1].totalAgeGroups[22].viewers13Plus > 0

\* sum over the inputs of input.averageAgeGroups[h][f] * input.days.length
RECURSIVE WeightedSum(_, _, _)
WeightedSum(months, h, f) ==
    IF Len(months) = 0 THEN 0
    ELSE WeightedSum(SubSeq(months, 1, Len(months) - 1), h, f)
             + months[Len(months)].averageAgeGroups[h][f] * Len(months[Len(months)].days)

\* the dates of the days of all inputs, each date once
CombinedDates(months) ==
    UNION {{months[m].days[d].date : d \in 1..Len(months[m].days)} :
               m \in 1..Len(months)}

\* C23: with two or more inputs, each per-hour average age-group figure of
\* the combined summary is round(sum over the inputs of
\* input.averageAgeGroups[h] * input.days.length / combinedDayCount), with
\* combinedDayCount the number of days of the combined, de-duplicated list.
C23_WeightedAverageAgeGroups ==
    (combined # <<>> /\ Len(monthsData) >= 2) =>
        LET combinedDayCount == Cardinality(CombinedDates(monthsData))
        IN  /\ Len(combined[1].days) = combinedDayCount
            /\ \A h \in 0..23 : \A f \in AgeFields :
                   combined[1].averageAgeGroups[h][f] =
                       IF combinedDayCount > 0
                       THEN 100 * Round(WeightedSum(monthsData, h, f),
                                        100 * combinedDayCount)
                       ELSE WeightedSum(monthsData, h, f)

\* two inputs that share the first of December and hold three days together:
\* the weighted sum of hour 20 is divided by 2 days, not by 3
C23_Witness ==
    /\ combined # <<>>
    /\ Len(monthsData) = 2
    /\ InputsWith(Date1) = {1, 2}
    /\ Len(monthsData[1].days) + Len(monthsData[2].days) = 3
    /\ Len(combined[1].days) = 2
    /\ combined[1].averageAgeGroups[20].viewers13Plus > 0

=============================================================================
